---- MODULE Spec2Model ----
(***************************************************************************)
(* Model of the ABI agent portal (src/gapp.py, src/gtools.py): the         *)
(* session state of one browser session, the JSON credential file, and the *)
(* tool-calling loop handle_chat_interaction, which is run step by step:   *)
(* one action per blocking call to the hosted model.                       *)
(*                                                                         *)
(* Strings are sequences of tokens.  A token is an atomic piece of text    *)
(* (a character where the code takes a length, a word elsewhere), so that  *)
(* `x in s` (substring), lower(), upper(), strip() and len() are computed. *)
(* Python's None is the empty tuple and a present value x is <<x>>.        *)
(***************************************************************************)
EXTENDS Integers, Sequences, FiniteSets, TLC

\* ------------------------------------------------------------------ bounds
\* chat turns submitted in one run of the model
MaxTurns == 2
\* documents in the orders collection
MaxOrders == 2
\* the last time the clock reaches
MaxNow == 3

\* ------------------------------------------------------- Python primitives
None == <<>>
Some(x) == <<x>>
IsNone(o) == o = <<>>
Val(o) == o[1]

\* Python truthiness of an optional string
Truthy(o) == ~IsNone(o) /\ Val(o) # <<>>

\* `tok in s` for a marker tok that is one token of s
Contains(s, tok) == \E i \in 1..Len(s) : s[i] = tok

\* str.lower() and str.upper(), token by token
LowerTok(t) ==
    CASE t = "Quota" -> "quota"
      [] t = "QUOTA" -> "quota"
      [] t = "cust_" -> "cust_"
      [] t = "CUST_" -> "cust_"
      [] OTHER -> t

UpperTok(t) ==
    CASE t = "cust_" -> "CUST_"
      [] t = "quota" -> "QUOTA"
      [] t = "Quota" -> "QUOTA"
      [] OTHER -> t

Lower(s) == [i \in 1..Len(s) |-> LowerTok(s[i])]
Upper(s) == [i \in 1..Len(s) |-> UpperTok(s[i])]

IsSpace(t) == t \in {" ", "\n"}

RECURSIVE LStrip(_)
LStrip(s) == IF s # <<>> /\ IsSpace(Head(s)) THEN LStrip(Tail(s)) ELSE s

RECURSIVE RStrip(_)
RStrip(s) ==
    IF s # <<>> /\ IsSpace(s[Len(s)]) THEN RStrip(SubSeq(s, 1, Len(s) - 1)) ELSE s

\* str.strip()
Strip(s) == RStrip(LStrip(s))

\* ------------------------------------------------------------ input domains
Roles == {"customer", "business"}

Usernames == {<<"alice">>, <<"bob">>, <<>>}

\* a password is a sequence of characters
Passwords ==
    {<<"s", "e", "c", "r", "e", "t">>, <<"p", "a", "s", "s", "w", "d">>, <<"a", "b", "c">>, <<>>}

\* what a user may type in the customer id field of the registration form
CustomerIdInputs == {<<" ", "cust_", "001", " ">>, <<"CUST_", "002">>, <<" ">>, <<>>}

\* ------------------------------------------------------ the document store
\* A time is a count of half days since the midnight of 2025-01-01: even at
\* midnight, odd at noon.  A missing or null field of a document is None.
Collections == {"customers", "orders", "products", "revenue"}

\* what db.collection(name).stream() gives: the documents, or an exception
Fetched(docs) == [raised |-> FALSE, docs |-> docs]
FetchRaises == [raised |-> TRUE, docs |-> <<>>]

\* the customers collection; ids are stored as they were typed
CustomerDocs ==
    << [customer_id |-> <<"CUST_", "001">>, name |-> "Ann", email |-> "ann@example.com",
        region |-> "North"],
       [customer_id |-> <<" ", "cust_", "002">>, name |-> "Bob", email |-> "bob@example.com",
        region |-> "South"] >>

\* the products collection; ProductDocsNoPrice has no price field at all
ProductDocs ==
    << [product_id |-> "P1", name |-> "Lamp", category |-> "Home", price |-> Some("19.99"),
        stock_level |-> 10],
       [product_id |-> "P2", name |-> "Desk", category |-> "Office", price |-> Some("120.00"),
        stock_level |-> 3] >>
ProductDocsNoPrice == [i \in 1..Len(ProductDocs) |-> [ProductDocs[i] EXCEPT !.price = None]]

\* a revenue collection of n documents
RevenueDocs(n) ==
    [i \in 1..n |-> [revenue_id |-> i, order_id |-> "ORD_1", amount |-> 100 * i,
                     date |-> Some(1)]]

\* the orders collection: the i-th document has the i-th order id and product
\* id (P9 is no product), and every customer, status and estimated delivery
OrderIds == <<"ORD_1", "ORD_2", "ORD_3", "ORD_4">>
OrderProducts == <<"P1", "P9", "P2", "P1">>
OrderCustomers == {<<"cust_", "001", " ">>, <<"CUST_", "002">>}
OrderStatuses == {"Shipped", "Delivered", "Cancelled"}
EstDeliveries == {None, Some(1), Some(2), Some(4)}

OrderDoc(i, c, st, est) ==
    [order_id |-> OrderIds[i], customer_id |-> c, product_id |-> OrderProducts[i],
     status |-> st, order_date |-> Some(0), est_delivery |-> est]

RECURSIVE OrderTables(_)
OrderTables(n) ==
    IF n = 0 THEN {<<>>}
    ELSE LET shorter == OrderTables(n - 1)
         IN shorter \cup
            { Append(t, OrderDoc(n, c, st, est)) :
                t \in {u \in shorter : Len(u) = n - 1},
                c \in OrderCustomers, st \in OrderStatuses, est \in EstDeliveries }

\* two orders of CUST_001: one shipped and overdue, one delivered
OrderDocs ==
    << OrderDoc(1, <<"cust_", "001", " ">>, "Shipped", Some(1)),
       OrderDoc(2, <<"cust_", "001", " ">>, "Delivered", Some(1)) >>

GoodStore ==
    [customers |-> Fetched(CustomerDocs), orders |-> Fetched(OrderDocs),
     products |-> Fetched(ProductDocs), revenue |-> Fetched(RevenueDocs(4))]

\* stores whose collections are missing, empty or unreachable one by one
FaultStores ==
    [customers : {Fetched(CustomerDocs), Fetched(<<>>), FetchRaises},
     orders : {Fetched(OrderDocs), Fetched(<<>>), FetchRaises},
     products : {Fetched(ProductDocs), Fetched(ProductDocsNoPrice), Fetched(<<>>), FetchRaises},
     revenue : {Fetched(RevenueDocs(4)), Fetched(RevenueDocs(5)), Fetched(<<>>), FetchRaises}]

\* stores with every orders table
TableStores ==
    { [GoodStore EXCEPT !.orders = Fetched(t)] : t \in OrderTables(MaxOrders) \ {<<>>} }

\* the stores of a chat turn: all tables, and products without price column
TurnStores ==
    { GoodStore,
      [GoodStore EXCEPT !.products = Fetched(ProductDocsNoPrice)] }

\* ------------------------------------------------------------------- state
VARIABLES
    credentials_file,    \* credentials.json: username -> record
    page,                \* st.session_state.page
    auth_role_pending,   \* st.session_state.auth_role_pending
    authenticated_user,  \* st.session_state.authenticated_user
    customer_id,         \* st.session_state.customer_id
    biz_view,            \* st.session_state.biz_view
    customer_history,    \* st.session_state.customer_history
    business_history,    \* st.session_state.business_history
    audit_log,           \* st.session_state.audit_log
    last_raw_response,   \* st.session_state.last_raw_response
    ui_message,          \* the last st.error / st.warning / st.success shown
    auth_call,           \* the last authenticate_user / create_new_user call: its
                         \* arguments, and how the credential file's I/O went
    db,                  \* gtools.db: None, or the document-store client
    leads,               \* the documents of the store's 'leads' collection
    store,               \* the store's customers, orders, products and revenue
                         \* collections: what a fetch of each one gives
    now,                 \* datetime.now(), in half days
    data_call,           \* the last direct call of a data tool: its arguments,
                         \* the time of the call and its result
    prev_call,           \* the call of get_customer_orders before a repeated one
    registrations,       \* the create_new_user calls of concurrent sessions: for
                         \* each, how far it is and its local CREDENTIALS
    \* --- the running handle_chat_interaction(prompt, role) call
    pc,                  \* "idle", "invoke", "dispatch", "returned", or "raised"
                         \* when an exception left the call
    prompt,              \* its prompt argument
    contents,            \* its local contents
    attempt,             \* the retry loop's attempt
    response,            \* its local response
    parts,               \* the parts the dispatch loop has still to visit
    current_tool_steps,  \* its local current_tool_steps
    returned,            \* the (response_text, current_tool_steps) it returned
    \* --- what the collaborators saw during the call
    model_calls,         \* every client.models.generate_content call: contents, outcome
    sleeps,              \* every time.sleep: the backoff without its jitter
    tool_runs,           \* every function_map[func_name](**func_args) call
    turns                \* chat turns submitted so far

session_vars == <<page, auth_role_pending, authenticated_user, customer_id, biz_view,
                  customer_history, business_history, audit_log, last_raw_response>>

call_vars == <<pc, prompt, contents, attempt, response, parts, current_tool_steps, returned>>

seen_vars == <<model_calls, sleeps, tool_runs>>

data_vars == <<store, now, data_call, prev_call>>

vars == <<credentials_file, session_vars, ui_message, auth_call, db, leads, data_vars,
          registrations, call_vars, seen_vars, turns>>

\* the empty mapping {}
EmptyMap == [u \in {} |-> None]

\* d[k] = v added to (or overwritten in) the mapping d
MapSet(d, k, v) == [u \in (DOMAIN d) \cup {k} |-> IF u = k THEN v ELSE d[u]]

\* load_credentials: the file's mapping, or {} when it cannot be read or parsed
load_credentials(readable) == IF readable THEN credentials_file ELSE EmptyMap

Init ==
    /\ credentials_file = EmptyMap
    /\ page = "selector"
    /\ auth_role_pending = None
    /\ authenticated_user = None
    /\ customer_id = None
    /\ biz_view = "hub"
    /\ customer_history = <<>>
    /\ business_history = <<>>
    /\ audit_log = <<>>
    /\ last_raw_response = None
    /\ ui_message = None
    /\ auth_call = None
    /\ db \in {None, Some("firestore.client")}
    /\ leads = <<>>
    /\ store = GoodStore
    /\ now = 2
    /\ data_call = None
    /\ prev_call = None
    /\ registrations = <<>>
    /\ pc = "idle"
    /\ prompt = None
    /\ contents = <<>>
    /\ attempt = 0
    /\ response = None
    /\ parts = <<>>
    /\ current_tool_steps = <<>>
    /\ returned = None
    /\ model_calls = <<>>
    /\ sleeps = <<>>
    /\ tool_runs = <<>>
    /\ turns = 0

\* render_selector_page: one of the two portal buttons
EnterPortal(role) ==
    /\ page = "selector"
    /\ auth_role_pending' = Some(role)
    /\ page' = "auth"
    /\ ui_message' = None
    /\ auth_call' = None
    /\ UNCHANGED <<credentials_file, authenticated_user, customer_id, biz_view,
                   customer_history, business_history, audit_log, last_raw_response>>
    /\ UNCHANGED <<data_vars, registrations, db, leads, call_vars, seen_vars, turns>>

\* render_auth_page: "Cancel and Go Back"
AuthBack ==
    /\ page = "auth"
    /\ auth_role_pending' = None
    /\ page' = "selector"
    /\ ui_message' = None
    /\ auth_call' = None
    /\ UNCHANGED <<credentials_file, authenticated_user, customer_id, biz_view,
                   customer_history, business_history, audit_log, last_raw_response>>
    /\ UNCHANGED <<data_vars, registrations, db, leads, call_vars, seen_vars, turns>>

\* an authentication that reports a wrong password as an unknown user
AuthOutcome_conflated(CREDENTIALS, username, password, expected_role) ==
    IF username \in DOMAIN CREDENTIALS /\ CREDENTIALS[username].password = password
    THEN IF CREDENTIALS[username].role = expected_role THEN "ok" ELSE "role"
    ELSE "not_found"

\* the branch authenticate_user takes
AuthOutcome(CREDENTIALS, username, password, expected_role) ==
    IF username \in DOMAIN CREDENTIALS
    THEN IF CREDENTIALS[username].password = password
         THEN IF CREDENTIALS[username].role = expected_role THEN "ok" ELSE "role"
         ELSE "password"
    ELSE "not_found"

AuthMessage(outcome) ==
    CASE outcome = "role" -> Some("Authentication failed: Incorrect role for this user.")
      [] outcome = "password" -> Some("Authentication failed: Incorrect password.")
      [] outcome = "not_found" -> Some("Authentication failed: User ID not found.")
      [] OTHER -> None

\* a login that does not test the role of the stored record
authenticate_user_any_role(username, password, readable) ==
    /\ page = "auth"
    /\ LET CREDENTIALS == load_credentials(readable)
           expected_role == Val(auth_role_pending)
           outcome == IF AuthOutcome(CREDENTIALS, username, password, expected_role) = "role"
                      THEN "ok"
                      ELSE AuthOutcome(CREDENTIALS, username, password, expected_role)
       IN /\ auth_call' = Some([func |-> "authenticate_user", username |-> username,
                                password |-> password, expected_role |-> expected_role,
                                readable |-> readable])
          /\ ui_message' = AuthMessage(outcome)
          /\ IF outcome = "ok"
             THEN LET user_data == CREDENTIALS[username]
                  IN /\ authenticated_user' = Some(username)
                     /\ customer_id' = IF expected_role = "customer"
                                       THEN user_data.customer_id
                                       ELSE customer_id
                     /\ page' = IF expected_role = "customer"
                                THEN "customer_chat" ELSE "business_chat"
                     /\ auth_role_pending' = None
             ELSE UNCHANGED <<authenticated_user, customer_id, page, auth_role_pending>>
    /\ UNCHANGED <<credentials_file, biz_view, customer_history, business_history,
                   audit_log, last_raw_response>>
    /\ UNCHANGED <<data_vars, registrations, db, leads, call_vars, seen_vars, turns>>

\* authenticate_user(username, password, expected_role), called by the login form
authenticate_user(username, password, readable) ==
    /\ page = "auth"
    /\ LET CREDENTIALS == load_credentials(readable)
           expected_role == Val(auth_role_pending)
           outcome == AuthOutcome(CREDENTIALS, username, password, expected_role)
       IN /\ auth_call' = Some([func |-> "authenticate_user", username |-> username,
                                password |-> password, expected_role |-> expected_role,
                                readable |-> readable])
          /\ ui_message' = AuthMessage(outcome)
          /\ IF outcome = "ok"
             THEN LET user_data == CREDENTIALS[username]
                  IN /\ authenticated_user' = Some(username)
                     /\ customer_id' = IF expected_role = "customer"
                                       THEN user_data.customer_id
                                       ELSE customer_id
                     /\ page' = IF expected_role = "customer"
                                THEN "customer_chat" ELSE "business_chat"
                     /\ auth_role_pending' = None
             ELSE UNCHANGED <<authenticated_user, customer_id, page, auth_role_pending>>
    /\ UNCHANGED <<credentials_file, biz_view, customer_history, business_history,
                   audit_log, last_raw_response>>
    /\ UNCHANGED <<data_vars, registrations, db, leads, call_vars, seen_vars, turns>>

\* a validation that forgets the password length
Rejection_no_length_check(CREDENTIALS, new_username, new_password, role, new_customer_id) ==
    IF new_username = <<>> \/ new_password = <<>>
    THEN Some("User ID and Password cannot be empty.")
    ELSE IF new_username \in DOMAIN CREDENTIALS
    THEN Some("Registration failed: User ID already exists.")
    ELSE IF role = "customer" /\ ~Truthy(new_customer_id)
    THEN Some("Customer ID is required for customer accounts.")
    ELSE None

\* create_new_user's validation: the message of the rejection, None when the
\* account is accepted
Rejection(CREDENTIALS, new_username, new_password, role, new_customer_id) ==
    IF new_username = <<>> \/ new_password = <<>>
    THEN Some("User ID and Password cannot be empty.")
    ELSE IF new_username \in DOMAIN CREDENTIALS
    THEN Some("Registration failed: User ID already exists.")
    ELSE IF Len(new_password) < 6
    THEN Some("Password must be at least 6 characters long.")
    ELSE IF role = "customer" /\ ~Truthy(new_customer_id)
    THEN Some("Customer ID is required for customer accounts.")
    ELSE None

\* a record that keeps the customer id as it was typed
NewUserData_as_typed(new_password, role, new_customer_id) ==
    [password |-> new_password,
     role |-> role,
     customer_id |-> IF role = "customer" THEN new_customer_id ELSE None]

\* the user_data record of an accepted account
NewUserData(new_password, role, new_customer_id) ==
    [password |-> new_password,
     role |-> role,
     customer_id |-> IF role = "customer"
                     THEN Some(Upper(Strip(Val(new_customer_id))))
                     ELSE None]

\* create_new_user(new_username, new_password, role, customer_id), called by the
\* registration form; the form passes customer_id = None unless the pending role
\* is customer (register_customer_id is the text typed in the customer id field)
create_new_user(new_username, new_password, register_customer_id, readable, writable) ==
    /\ page = "auth"
    /\ LET CREDENTIALS == load_credentials(readable)
           role == Val(auth_role_pending)
           new_customer_id == IF role = "customer" THEN Some(register_customer_id) ELSE None
           rejection == Rejection(CREDENTIALS, new_username, new_password, role,
                                  new_customer_id)
           user_data == NewUserData(new_password, role, new_customer_id)
       IN /\ auth_call' = Some([func |-> "create_new_user", new_username |-> new_username,
                                new_password |-> new_password, role |-> role,
                                customer_id |-> new_customer_id, readable |-> readable,
                                \* save_credentials' result, None when it is not called
                                saved |-> IF IsNone(rejection) THEN Some(writable) ELSE None])
          /\ IF ~IsNone(rejection)
             THEN /\ ui_message' = rejection
                  /\ UNCHANGED credentials_file
             ELSE IF writable
             THEN /\ credentials_file' = MapSet(CREDENTIALS, new_username, user_data)
                  /\ ui_message' = Some("Account created successfully! You can now log in.")
             ELSE /\ UNCHANGED credentials_file
                  /\ ui_message' = Some("Failed to save new user account.")
    /\ UNCHANGED session_vars
    /\ UNCHANGED <<data_vars, registrations, db, leads, call_vars, seen_vars, turns>>

\* ------------------------------------------------- google.genai value shapes
\* types.Part
TextPart(t) == [text |-> Some(t), function_call |-> None, function_response |-> None]
CallPart(c) == [text |-> None, function_call |-> Some(c), function_response |-> None]
FunctionResponsePart(name, result) ==
    [text |-> None, function_call |-> None,
     function_response |-> Some([name |-> name, response |-> [result |-> result]])]

\* types.Content with a list of parts; content.parts may also be None
Content(role, ps) == [role |-> role, parts |-> Some(ps)]
ContentNoParts == [role |-> "model", parts |-> None]

\* a response candidate; candidate.content may be None
Candidate(c) == [content |-> Some(c)]
CandidateNoContent == [content |-> None]

\* ------------------------------------------------ what the model may answer
Prompts == {<<"where", "is", "my", "order">>, <<"total", "revenue">>}

CUST_001 == <<"CUST_", "001">>
CUST_002 == <<"CUST_", "002">>

\* function calls a response may carry (name and args are the model's choice)
CallOrders(cid) == [name |-> "get_customer_orders", args |-> [customer_id |-> cid]]
CallPandas == [name |-> "execute_pandas_code_business",
               args |-> [python_code |-> <<"result = revenue_df.amount.sum()">>]]
CallPandasExit == [name |-> "execute_pandas_code_business",
                   args |-> [python_code |-> <<"raise SystemExit(1)">>]]
CallOther == [name |-> "get_order_status", args |-> [order_id |-> <<"ORD_", "001">>]]
CallBadArgs == [name |-> "get_customer_orders", args |-> [id |-> CUST_001]]

AnswerText == <<"Your", " ", "order", " ", "shipped">>
BlankText == <<" ", "\n">>

TextResponse(t) ==
    [text |-> Some(t), candidates |-> <<Candidate(Content("model", <<TextPart(t)>>))>>]
CallResponse(cs) ==
    [text |-> None,
     candidates |-> <<Candidate(Content("model", [i \in 1..Len(cs) |-> CallPart(cs[i])]))>>]

Responses ==
    { TextResponse(AnswerText),
      TextResponse(BlankText),
      \* no candidate at all
      [text |-> None, candidates |-> <<>>],
      \* a candidate whose content has parts = None
      [text |-> None, candidates |-> <<Candidate(ContentNoParts)>>],
      \* a candidate without content, then one whose parts carry the text
      [text |-> None,
       candidates |-> <<CandidateNoContent, Candidate(Content("model", <<TextPart(AnswerText)>>))>>],
      \* text next to a function call
      [text |-> Some(AnswerText),
       candidates |-> <<Candidate(Content("model", <<TextPart(AnswerText), CallPart(CallOther)>>))>>],
      CallResponse(<<CallOrders(CUST_001)>>),
      CallResponse(<<CallOrders(CUST_002)>>),
      CallResponse(<<CallPandas>>),
      CallResponse(<<CallPandasExit>>),
      CallResponse(<<CallBadArgs>>),
      CallResponse(<<CallOrders(CUST_001), CallPandas>>),
      CallResponse(<<CallOrders(CUST_001), CallOrders(CUST_002)>>) }

\* str(e) of an exception raised by generate_content
ErrorTexts ==
    { <<"503", " ", "UNAVAILABLE">>,
      <<"429", " ", "RESOURCE_EXHAUSTED", " ", "Quota", " ", "exceeded">>,
      <<"Quota", " ", "exceeded">>,
      <<"500", " ", "INTERNAL">> }

\* ------------------------------------------------------------------ tools
\* one tool list shared by both personas
function_map_shared(role) == {"get_customer_orders", "execute_pandas_code_business"}

\* REGISTERED_CUSTOMER_TOOLS / REGISTERED_BUSINESS_TOOLS_ALL, as function_map's keys
function_map(role) ==
    IF role = "customer" THEN {"get_customer_orders"}
    ELSE {"execute_pandas_code_business"}

\* the parameter names of the registered functions
Parameters(func_name) ==
    IF func_name = "get_customer_orders" THEN {"customer_id"} ELSE {"python_code"}

\* ---------------------------------------------------------- data loading
FIREBASE_INIT_STATUS ==
    IF IsNone(db) THEN <<"ERROR", ": Firebase credentials not found.">>
    ELSE <<"SUCCESS", " (Local File)">>

\* get_firestore_collection(collection_name): the (df, status) pair
get_firestore_collection(collection_name) ==
    IF IsNone(db)
    THEN [df |-> <<>>,
          status |-> <<"ERROR", ": Firebase not initialized. Status: ">> \o FIREBASE_INIT_STATUS]
    ELSE IF store[collection_name].raised
    THEN [df |-> <<>>,
          status |-> <<"ERROR", ": Failed to retrieve collection '", collection_name,
                       "'. Details: ", "503 unavailable">>]
    ELSE IF store[collection_name].docs = <<>>
    THEN [df |-> <<>>,
          status |-> <<"ERROR", ": Collection '", collection_name,
                       "' is empty or does not exist.">>]
    ELSE [df |-> store[collection_name].docs, status |-> <<"SUCCESS">>]

\* sep.join(items), for items that are strings
RECURSIVE Join(_, _)
Join(items, sep) ==
    IF items = <<>> THEN <<>>
    ELSE IF Len(items) = 1 THEN Head(items)
    ELSE Head(items) \o <<sep>> \o Join(Tail(items), sep)

\* df['customer_id'].astype(str).str.strip().str.upper()
CleanCustomerIds(df) ==
    [i \in 1..Len(df) |-> [df[i] EXCEPT !.customer_id = Upper(Strip(df[i].customer_id))]]

\* the errors list of load_data: one entry for each status carrying 'ERROR'
LoadErrors(customers_status, orders_status, products_status, revenue_status) ==
    (IF Contains(customers_status, "ERROR")
     THEN << <<"Customers", ": ">> \o customers_status >> ELSE <<>>)
    \o (IF Contains(orders_status, "ERROR")
        THEN << <<"Orders", ": ">> \o orders_status >> ELSE <<>>)
    \o (IF Contains(products_status, "ERROR")
        THEN << <<"Products", ": ">> \o products_status >> ELSE <<>>)
    \o (IF Contains(revenue_status, "ERROR")
        THEN << <<"Revenue", ": ">> \o revenue_status >> ELSE <<>>)

\* a load that reports the first failing collection only
load_data_first_error ==
    LET customers == get_firestore_collection("customers")
        orders == get_firestore_collection("orders")
        products == get_firestore_collection("products")
        revenue == get_firestore_collection("revenue")
        errors == LoadErrors(customers.status, orders.status, products.status, revenue.status)
    IN IF errors # <<>>
       THEN [is_str |-> TRUE, text |-> <<"Data Load Error", ": ">> \o Head(errors)]
       ELSE [is_str |-> FALSE,
             customers_df |-> CleanCustomerIds(customers.df),
             orders_df |-> CleanCustomerIds(orders.df),
             products_df |-> products.df,
             revenue_df |-> revenue.df]

\* load_data(): the error string, or the dict of the four cleaned tables
load_data ==
    LET customers == get_firestore_collection("customers")
        orders == get_firestore_collection("orders")
        products == get_firestore_collection("products")
        revenue == get_firestore_collection("revenue")
        errors == LoadErrors(customers.status, orders.status, products.status, revenue.status)
    IN IF errors # <<>>
       THEN [is_str |-> TRUE, text |-> <<"Data Load Error", ": ">> \o Join(errors, "; ")]
       ELSE [is_str |-> FALSE,
             customers_df |-> CleanCustomerIds(customers.df),
             orders_df |-> CleanCustomerIds(orders.df),
             products_df |-> products.df,
             revenue_df |-> revenue.df]

\* ------------------------------------------------------------ data tools

\* pd.to_datetime(datetime.now().strftime('%Y-%m-%d')): the midnight of t's day
Midnight(t) == t - (t % 2)

\* (later - earlier).days
DaysBetween(later, earlier) == (later - earlier) \div 2

\* t.strftime('%Y-%m-%d')
DateStr(t) ==
    CASE t \div 2 = 0 -> "2025-01-01"
      [] t \div 2 = 1 -> "2025-01-02"
      [] t \div 2 = 2 -> "2025-01-03"
      [] OTHER -> "2025-01-04"

\* col in df.columns, for a field that documents may lack
HasColumn(df, col) == \E i \in 1..Len(df) : ~IsNone(df[i][col])

\* the first n items
Take(items, n) == SubSeq(items, 1, IF Len(items) < n THEN Len(items) ELSE n)

\* the product fields of a row without matching product
NoProduct == [name |-> "nan", category |-> "nan", price |-> None]

\* orders.merge(products_df, on='product_id', how='left'): one row for each
\* matching product, one row with null product fields when there is none
RECURSIVE MergeProducts(_, _)
MergeProducts(orders, products_df) ==
    IF orders = <<>> THEN <<>>
    ELSE LET o == Head(orders)
             matches == SelectSeq(products_df, LAMBDA p : p.product_id = o.product_id)
         IN (IF matches = <<>>
             THEN << [order |-> o, product |-> NoProduct] >>
             ELSE [k \in 1..Len(matches) |->
                      [order |-> o,
                       product |-> [name |-> matches[k].name,
                                    category |-> matches[k].category,
                                    price |-> matches[k].price]]])
            \o MergeProducts(Tail(orders), products_df)

\* orders.merge(customers_df, on='customer_id', how='left')['name']
RECURSIVE MergeCustomerNames(_, _)
MergeCustomerNames(orders, customers_df) ==
    IF orders = <<>> THEN <<>>
    ELSE LET o == Head(orders)
             matches == SelectSeq(customers_df, LAMBDA c : c.customer_id = o.customer_id)
         IN (IF matches = <<>> THEN <<"nan">>
             ELSE [k \in 1..Len(matches) |-> matches[k].name])
            \o MergeCustomerNames(Tail(orders), customers_df)

\* a delay test that forgets the status
IsDelayedRow_any_status(o, today) ==
    /\ ~IsNone(o.est_delivery)
    /\ Val(o.est_delivery) < today

\* the row filter of check_for_critical_delays and check_customer_order_status
IsDelayedRow(o, today) ==
    /\ ~IsNone(o.est_delivery)
    /\ Val(o.est_delivery) < today
    /\ o.status # "Delivered"
    /\ o.status # "Cancelled"

\* a report that marks every order past its date
MarkedDelayed_any_status(o, t) == t > Val(o.est_delivery)

\* the test of get_customer_orders for the DELAYED line of an order with a date
MarkedDelayed(o, t) == o.status \notin {"Delivered", "Cancelled"} /\ t > Val(o.est_delivery)

\* the lines of one order in the report of get_customer_orders
OrderLines(row, t) ==
    LET o == row.order
    IN <<"Order ID:", o.order_id,
         "Product:", row.product.name, row.product.category,
         "Price:", IF IsNone(row.product.price) THEN "nan" ELSE Val(row.product.price),
         "Status:", o.status>>
       \o (IF ~IsNone(o.order_date) THEN <<"Order Date:", DateStr(Val(o.order_date))>> ELSE <<>>)
       \o (IF ~IsNone(o.est_delivery)
           THEN <<"Est. Delivery:", DateStr(Val(o.est_delivery))>>
                \o (IF MarkedDelayed(o, t)
                    THEN <<"DELAYED:", ToString(DaysBetween(t, Val(o.est_delivery))),
                           "day(s) overdue">>
                    ELSE <<>>)
           ELSE <<"Est. Delivery:", "N/A">>)

RECURSIVE AllOrderLines(_, _)
AllOrderLines(rows, t) ==
    IF rows = <<>> THEN <<>> ELSE OrderLines(Head(rows), t) \o AllOrderLines(Tail(rows), t)

\* get_customer_orders(customer_id): what it returns, or the exception it raises
get_customer_orders(cid) ==
    LET data == load_data
    IN IF data.is_str THEN [raised |-> FALSE, value |-> data.text]
       ELSE LET clean_id == Upper(Strip(cid))
                customer == SelectSeq(data.customers_df, LAMBDA c : c.customer_id = clean_id)
                customer_orders ==
                    MergeProducts(SelectSeq(data.orders_df, LAMBDA o : o.customer_id = clean_id),
                                  data.products_df)
            IN IF customer = <<>>
               THEN [raised |-> FALSE,
                     value |-> <<"ERROR", ": Customer ID '">> \o clean_id
                               \o <<"' not found in the system.">>]
               ELSE IF customer_orders = <<>>
               THEN [raised |-> FALSE,
                     value |-> <<"Hello ", customer[1].name,
                                 "! You currently have no orders in the system.">>]
               ELSE IF ~HasColumn(data.products_df, "price")
               THEN \* row['price'] of the merged table
                    [raised |-> TRUE, exc |-> "KeyError", value |-> <<"'price'">>]
               ELSE [raised |-> FALSE,
                     value |-> <<"Customer:", customer[1].name, "ID:">> \o clean_id
                               \o <<"Email:", customer[1].email,
                                    "Region:", customer[1].region,
                                    "Total Orders:", ToString(Len(customer_orders))>>
                               \o AllOrderLines(customer_orders, now)]

\* the exception classes that derive from BaseException and not from Exception
BaseOnlyExceptions == {"SystemExit", "KeyboardInterrupt", "GeneratorExit"}

\* "except Exception" catches the class
ExceptException(exc) == exc \notin BaseOnlyExceptions

\* code the model may submit to execute_pandas_code_business
CodeSum == <<"result = revenue_df.amount.sum()">>
CodeCount == <<"result = len(orders_df)">>
CodeText == <<"result = 'done'">>
CodeFrame == <<"result = customers_df[['name']]">>
CodeNone == <<"result = None">>
CodeNoResult == <<"total = len(orders_df)">>
CodeKeyError == <<"result = orders_df['amount'].sum()">>
CodeExit == <<"raise SystemExit(1)">>
CodeGarbled == <<"result = = 1">>

RECURSIVE SumAmounts(_)
SumAmounts(df) == IF df = <<>> THEN 0 ELSE Head(df).amount + SumAmounts(Tail(df))

\* exec(python_code, {}, local_env): the exception it raises (class and
\* str(e)), or whether result is bound afterwards and to what
Exec(python_code, data_map) ==
    CASE python_code = CodeSum ->
           [exc |-> None, bound |-> TRUE,
            result |-> [type |-> "numpy.int64", v |-> SumAmounts(data_map.revenue_df)]]
      [] python_code = CodeCount ->
           [exc |-> None, bound |-> TRUE,
            result |-> [type |-> "int", v |-> Len(data_map.orders_df)]]
      [] python_code = CodeText ->
           [exc |-> None, bound |-> TRUE, result |-> [type |-> "str", v |-> <<"done">>]]
      [] python_code = CodeFrame ->
           [exc |-> None, bound |-> TRUE,
            result |-> [type |-> "DataFrame",
                        v |-> [i \in 1..Len(data_map.customers_df) |->
                                  data_map.customers_df[i].name]]]
      [] python_code = CodeNone ->
           [exc |-> None, bound |-> TRUE, result |-> [type |-> "NoneType"]]
      [] python_code = CodeNoResult ->
           [exc |-> None, bound |-> FALSE]
      [] python_code = CodeKeyError ->
           [exc |-> Some([class |-> "KeyError", text |-> <<"'amount'">>]), bound |-> FALSE]
      [] python_code = CodeExit ->
           [exc |-> Some([class |-> "SystemExit", text |-> <<"1">>]), bound |-> FALSE]
      [] OTHER ->
           [exc |-> Some([class |-> "SyntaxError", text |-> <<"invalid syntax">>]),
            bound |-> FALSE]

\* format_scalar_output(value)
format_scalar_output(value) == <<"Result", "\n", ToString(value)>>

\* format_dataframe_output(df) of a one-column table of names
RECURSIVE RecordLines(_, _)
RecordLines(rows, i) ==
    IF i > Len(rows) THEN <<>>
    ELSE <<"Record ", ToString(i), ":", "name: ", rows[i], "\n">> \o RecordLines(rows, i + 1)

format_dataframe_output(rows) ==
    <<"Total Records: ", ToString(Len(rows)), "\n">>
    \o (IF Len(rows) > 10 THEN <<"Showing first 10 rows", "\n">> ELSE <<>>)
    \o RecordLines(Take(rows, 10), 1)
    \o (IF Len(rows) > 10 THEN <<"and ", ToString(Len(rows) - 10), " more records">> ELSE <<>>)

NoneWarning == <<"Warning", ": The calculation returned None. Please check your code logic.">>

NoResultError ==
    <<"Error", ": The code ran, but no variable named 'result' was defined.",
      " Please assign the final answer to 'result'.">>

ExecutionError(text) ==
    <<"Python Execution Error", ": ">> \o text
    \o <<"\n\n", "Common issues:", "\n",
         "- Check column names match the schema exactly (case-sensitive)", "\n",
         "- Ensure you're using correct merge keys (customer_id, product_id, order_id)", "\n",
         "- Use suffixes when joining tables with duplicate column names", "\n",
         "- Verify dataframe names: customers_df, orders_df, products_df, revenue_df">>

\* execute_pandas_code_business(python_code): the load error; the execution
\* error when the code raises an Exception, while any other exception leaves
\* the function; the missing-result error, the None warning, or the
\* formatted value
execute_pandas_code_business(python_code) ==
    LET data_map == load_data
        ran == Exec(python_code, data_map)
    IN IF data_map.is_str THEN [raised |-> FALSE, value |-> data_map.text]
       ELSE IF ~IsNone(ran.exc)
       THEN IF ExceptException(Val(ran.exc).class)
            THEN [raised |-> FALSE, value |-> ExecutionError(Val(ran.exc).text)]
            ELSE [raised |-> TRUE, exc |-> Val(ran.exc).class, value |-> Val(ran.exc).text]
       ELSE IF ~ran.bound THEN [raised |-> FALSE, value |-> NoResultError]
       ELSE IF ran.result.type = "NoneType" THEN [raised |-> FALSE, value |-> NoneWarning]
       ELSE IF ran.result.type = "DataFrame"
       THEN [raised |-> FALSE, value |-> format_dataframe_output(ran.result.v)]
       ELSE IF ran.result.type \in {"int", "numpy.int64"}
       THEN [raised |-> FALSE, value |-> format_scalar_output(ran.result.v)]
       ELSE [raised |-> FALSE, value |-> ran.result.v]

\* check_for_critical_delays(): the load error, the warning, the alert with
\* the count, the first three order ids and the first three customer names of
\* the delayed orders, or the all-clear
check_for_critical_delays ==
    LET data == load_data
    IN IF data.is_str THEN data.text
       ELSE IF ~HasColumn(data.orders_df, "est_delivery")
       THEN <<"WARNING", ": Delivery date tracking not available. Cannot check for delays.">>
       ELSE LET today == Midnight(now)
                critically_delayed_orders ==
                    SelectSeq(data.orders_df, LAMBDA o : IsDelayedRow(o, today))
                order_list ==
                    Take([i \in 1..Len(critically_delayed_orders) |->
                             <<critically_delayed_orders[i].order_id>>], 3)
                customer_names ==
                    Take([i \in 1..Len(MergeCustomerNames(critically_delayed_orders,
                                                          data.customers_df)) |->
                             <<MergeCustomerNames(critically_delayed_orders,
                                                  data.customers_df)[i]>>], 3)
            IN IF critically_delayed_orders # <<>>
               THEN <<"ALERT", ": ", ToString(Len(critically_delayed_orders)),
                      " orders are critically delayed!", "\n", "Affected Orders: ">>
                    \o Join(order_list, ", ")
                    \o <<"\n", "Affected Customers: ">> \o Join(customer_names, ", ")
               ELSE <<"SUCCESS", ": No critical delivery delays found.">>

\* "s" for a count above one
Plural(count) == IF count > 1 THEN <<"s">> ELSE <<>>

\* check_customer_order_status(customer_id): the dict for the notification
check_customer_order_status(cid) ==
    LET data == load_data
    IN IF data.is_str THEN [status |-> "error", message |-> <<"Unable to load data">>]
       ELSE LET clean_id == Upper(Strip(cid))
                customer_orders == SelectSeq(data.orders_df, LAMBDA o : o.customer_id = clean_id)
                today == Midnight(now)
                delayed == SelectSeq(customer_orders, LAMBDA o : IsDelayedRow(o, today))
                on_time_count ==
                    Len(SelectSeq(customer_orders, LAMBDA o : o.status \in {"Pending", "Shipped"}))
                delivered_count ==
                    Len(SelectSeq(customer_orders, LAMBDA o : o.status = "Delivered"))
            IN IF customer_orders = <<>>
               THEN [status |-> "normal", message |-> <<"You have no active orders">>]
               ELSE IF ~HasColumn(customer_orders, "est_delivery")
               THEN [status |-> "normal",
                     message |-> <<"You have ", ToString(Len(customer_orders)), " active order">>
                                 \o Plural(Len(customer_orders)),
                     count |-> Len(customer_orders)]
               ELSE IF delayed # <<>>
               THEN [status |-> "delayed",
                     message |-> <<"You have ", ToString(Len(delayed)), " delayed order">>
                                 \o Plural(Len(delayed)) \o <<"!">>,
                     count |-> Len(delayed)]
               ELSE IF on_time_count > 0
               THEN [status |-> "normal",
                     message |-> <<"All ", ToString(on_time_count), " active order">>
                                 \o (IF on_time_count > 1 THEN <<"s are">> ELSE <<" is">>)
                                 \o <<" on track!">>,
                     count |-> on_time_count]
               ELSE [status |-> "normal",
                     message |-> <<"You have ", ToString(delivered_count), " completed order">>
                                 \o Plural(delivered_count),
                     count |-> delivered_count]

\* check_for_revenue_anomalies(); anomalies are the rows the isolation forest
\* predicts as -1
check_for_revenue_anomalies(anomalies) ==
    LET data == load_data
    IN IF data.is_str THEN data.text
       ELSE IF Len(data.revenue_df) < 5
       THEN <<"Not enough data points to run anomaly detection.">>
       ELSE IF anomalies # {}
       THEN LET latest_anomaly ==
                    data.revenue_df[CHOOSE i \in anomalies : \A j \in anomalies : j <= i]
            IN <<"CRITICAL REVENUE ANOMALY", ": Unusual pattern on ",
                 IF IsNone(latest_anomaly.date) THEN "Unknown"
                 ELSE DateStr(Val(latest_anomaly.date)),
                 " - Amount: ", ToString(latest_anomaly.amount),
                 " (Order: ", latest_anomaly.order_id, ").">>
       ELSE <<"SUCCESS", ": No significant revenue anomalies detected.">>

demo_sales == <<12, 45, 8, 25, 3, 50, 15, 30, 5, 20>>

\* products_df['product_id'].map(sales_map).fillna(5) for row i: the demo
\* figure of the last of the first ten rows with the same product id
DemoMonthlySales(products_df, i) ==
    LET same == {j \in 1..Len(products_df) :
                    j <= Len(demo_sales) /\ products_df[j].product_id = products_df[i].product_id}
    IN IF same = {} THEN 5
       ELSE demo_sales[CHOOSE j \in same : \A k \in same : k <= j]

\* the orders of a product in the last 30 days
MonthlyVelocity(orders_df, product_id, t) ==
    Len(SelectSeq(orders_df, LAMBDA o : /\ o.product_id = product_id
                                        /\ ~IsNone(o.order_date)
                                        /\ Val(o.order_date) > t - 60))

\* a quotient, kept as numerator and denominator
Ratio(num, den) == [num |-> num, den |-> den]
RatioLeq(r, n) == r.num <= n * r.den
RatioLess(r, q) == r.num * q.den < q.num * r.den

get_risk(days) ==
    IF RatioLeq(days, 7) THEN "CRITICAL"
    ELSE IF RatioLeq(days, 14) THEN "HIGH"
    ELSE IF RatioLeq(days, 30) THEN "MODERATE"
    ELSE "LOW"

\* rows.sort_values('days_until_stockout')
RECURSIVE SortByDays(_)
SortByDays(rows) ==
    IF rows = <<>> THEN <<>>
    ELSE LET first == Head(rows)
             rest == SortByDays(Tail(rows))
             before == SelectSeq(rest, LAMBDA r : RatioLess(r.days_until_stockout,
                                                            first.days_until_stockout))
             after == SelectSeq(rest, LAMBDA r : ~RatioLess(r.days_until_stockout,
                                                            first.days_until_stockout))
         IN before \o <<first>> \o after

\* get_supply_chain_predictions(): the forecast table. It fetches products and
\* orders itself and does not look at the status of either fetch
get_supply_chain_predictions ==
    LET products_df == get_firestore_collection("products").df
        orders_df == get_firestore_collection("orders").df
        monthly_sales(i) ==
            IF Len(orders_df) < 10 THEN DemoMonthlySales(products_df, i)
            ELSE MonthlyVelocity(orders_df, products_df[i].product_id, now)
        forecast(i) ==
            LET days_until_stockout ==
                    IF monthly_sales(i) > 0
                    THEN Ratio(products_df[i].stock_level * 30, monthly_sales(i))
                    ELSE Ratio(999, 1)
            IN [name |-> products_df[i].name,
                stock_level |-> products_df[i].stock_level,
                daily_burn_rate |-> Ratio(monthly_sales(i), 30),
                days_until_stockout |-> days_until_stockout,
                risk_level |-> get_risk(days_until_stockout)]
    IN IF products_df = <<>> THEN <<>>
       ELSE SortByDays([i \in 1..Len(products_df) |-> forecast(i)])

\* function_map[func_name](**func_args): the outcomes of the call
CallTool(func_name, func_args) ==
    IF DOMAIN func_args # Parameters(func_name)
    THEN { [raised |-> TRUE, exc |-> "TypeError",
             value |-> <<"TypeError", " ", "unexpected keyword argument">>] }
    ELSE IF func_name = "get_customer_orders"
    THEN { get_customer_orders(func_args.customer_id) }
    ELSE { execute_pandas_code_business(func_args.python_code) }

\* ------------------------------------------------- handle_chat_interaction
\* a retry bound that is one too large
max_retries_one_more == 3 + 1

max_retries == 3
base_delay == 2

RECURSIVE Pow2(_)
Pow2(n) == IF n = 0 THEN 1 ELSE 2 * Pow2(n - 1)

\* a retry that sleeps only from the second retry on
Backoff_skip_first(slept, att) ==
    IF att = 0 THEN slept ELSE Append(slept, base_delay * Pow2(att))

\* the backoff sleep of the retry loop: wait_time without its random jitter
Backoff(slept, att) == Append(slept, base_delay * Pow2(att))

TransientMarkers == {"429", "503", "RESOURCE_EXHAUSTED", "UNAVAILABLE"}

\* any(code in error_str for code in [...])
IsTransient(error_str) == \E code \in TransientMarkers : Contains(error_str, code)

\* a quota test that forgets lower()
IsQuota_case_sensitive(error_str) == Contains(error_str, "quota")

\* "quota" in error_str.lower()
IsQuota(error_str) == Contains(Lower(error_str), "quota")

OverloadedMsg(error_str) ==
    <<"Error: Service overloaded after 3 attempts. Please try again later.", "\n", "Details:">>
        \o error_str
QuotaMsg(error_str) ==
    <<"Error: API quota exceeded. Please check your Gemini API plan.", "\n", "Details:">>
        \o error_str
GenericErrorMsg(error_str) == <<"Error generating response:">> \o error_str
ExtractErrorMsg == <<"I encountered an error processing the response. Please try again.">>
ApologyMsg ==
    <<"I apologize, but I couldn't generate a proper response. Please try rephrasing your question.">>
ToolErrorMsg(func_name, msg) == <<"Error executing", " ", func_name, ":", " ">> \o msg

\* the persona of the chat page shown
Persona == IF page = "customer_chat" THEN "customer" ELSE "business"

history == IF Persona = "customer" THEN customer_history ELSE business_history

\* the contents built from the persisted history and the prompt; contents is a
\* list of types.Content whose items may be None
BuildContents(hist, p) ==
    [i \in 1..Len(hist) |->
        Some(Content(IF hist[i].role = "assistant" THEN "model" ELSE hist[i].role,
                     <<TextPart(hist[i].content)>>))]
    \o <<Some(Content("user", <<TextPart(p)>>))>>

\* a dispatch that looks at the first part only
DispatchParts_first_only(resp) ==
    IF /\ resp.candidates # <<>>
       /\ ~IsNone(resp.candidates[1].content)
       /\ ~IsNone(Val(resp.candidates[1].content).parts)
       /\ Val(Val(resp.candidates[1].content).parts) # <<>>
    THEN <<Head(Val(Val(resp.candidates[1].content).parts))>>
    ELSE <<>>

\* the parts the dispatch loop iterates: candidates[0].content.parts when the
\* response has candidates, a content and a non-empty parts list
DispatchParts(resp) ==
    IF /\ resp.candidates # <<>>
       /\ ~IsNone(resp.candidates[1].content)
       /\ ~IsNone(Val(resp.candidates[1].content).parts)
       /\ Val(Val(resp.candidates[1].content).parts) # <<>>
    THEN Val(Val(resp.candidates[1].content).parts)
    ELSE <<>>

\* log_customer_lead's document, message[:50] + "..." when the message is longer
PreviewLen == 50
LeadPreview(message) ==
    IF Len(message) > PreviewLen THEN SubSeq(message, 1, PreviewLen) \o <<"...">> ELSE message

\* a lead logger without the test of db
log_customer_lead_unguarded(the_db, docs, cid, message, lead_written) ==
    IF IsNone(cid) THEN docs
    ELSE IF lead_written
    THEN Append(docs, [customer_id |-> Upper(Val(cid)),
                       preview |-> LeadPreview(message),
                       type |-> "Chat Interaction"])
    ELSE docs

\* log_customer_lead(customer_id, message): the documents of 'leads' after the
\* call. Nothing is written when db is None; customer_id.upper() raises on
\* None and the add may raise (lead_written is FALSE), both inside the try
\* whose except only prints
log_customer_lead(the_db, docs, cid, message, lead_written) ==
    IF IsNone(the_db) THEN docs
    ELSE IF IsNone(cid) THEN docs
    ELSE IF lead_written
    THEN Append(docs, [customer_id |-> Upper(Val(cid)),
                       preview |-> LeadPreview(message),
                       type |-> "Chat Interaction"])
    ELSE docs

\* the text of the parts of one content, concatenated
RECURSIVE PartsText(_)
PartsText(ps) ==
    IF ps = <<>> THEN <<>>
    ELSE (IF Truthy(Head(ps).text) THEN Val(Head(ps).text) ELSE <<>>) \o PartsText(Tail(ps))

\* the text of all candidates, concatenated
RECURSIVE CandidatesText(_)
CandidatesText(cands) ==
    IF cands = <<>> THEN <<>>
    ELSE (IF IsNone(Head(cands).content) THEN <<>>
          ELSE PartsText(Val(Val(Head(cands).content).parts)))
         \o CandidatesText(Tail(cands))

\* iterating content.parts raises when parts is None
ExtractRaises(resp) ==
    /\ ~Truthy(resp.text)
    /\ \E i \in 1..Len(resp.candidates) :
          /\ ~IsNone(resp.candidates[i].content)
          /\ IsNone(Val(resp.candidates[i].content).parts)

\* an extraction whose default message replaces the empty text only
ExtractText_no_strip(resp) ==
    LET response_text ==
            IF Truthy(resp.text) THEN Val(resp.text)
            ELSE IF ExtractRaises(resp) THEN ExtractErrorMsg
            ELSE CandidatesText(resp.candidates)
    IN IF response_text = <<>> THEN ApologyMsg ELSE response_text

\* "Extract text safely" and the default message
ExtractText(resp) ==
    LET response_text ==
            IF Truthy(resp.text) THEN Val(resp.text)
            ELSE IF ExtractRaises(resp) THEN ExtractErrorMsg
            ELSE CandidatesText(resp.candidates)
    IN IF response_text = <<>> \/ Strip(response_text) = <<>>
       THEN ApologyMsg
       ELSE response_text

\* one entry of model_calls: the contents sent, and the response or the error
ModelCall(sent, ok, error_str, resp) ==
    [contents |-> sent, ok |-> ok, error |-> error_str, response |-> resp]

\* a chat page is shown to a logged-in user and no call is running
ChatShown ==
    /\ pc = "idle"
    /\ ~IsNone(authenticated_user)
    /\ \/ page = "customer_chat"
       \/ page = "business_chat" /\ biz_view = "chat"

\* render_chat_page: the business command center's view buttons
SetBizView(view) ==
    /\ pc = "idle"
    /\ page = "business_chat"
    /\ ~IsNone(authenticated_user)
    /\ IF biz_view = "hub" THEN view # "hub" ELSE view = "hub"
    /\ biz_view' = view
    /\ UNCHANGED <<data_vars, registrations, credentials_file, auth_call, page, auth_role_pending, authenticated_user, customer_id,
                   customer_history, business_history, audit_log, last_raw_response,
                   ui_message, db, leads, call_vars, seen_vars, turns>>

\* a logout that leaves the audit log behind
Logout_keeps_audit_log ==
    /\ pc = "idle"
    /\ page \in {"customer_chat", "business_chat"}
    /\ ~IsNone(authenticated_user)
    /\ authenticated_user' = None
    /\ customer_id' = None
    /\ auth_role_pending' = None
    /\ customer_history' = <<>>
    /\ business_history' = <<>>
    /\ page' = "selector"
    /\ biz_view' = "hub"
    /\ UNCHANGED <<data_vars, registrations, credentials_file, auth_call, audit_log, last_raw_response, ui_message, db,
                   leads, call_vars, seen_vars, turns>>

\* render_chat_page: "Logout & Return Home"
Logout ==
    /\ pc = "idle"
    /\ page \in {"customer_chat", "business_chat"}
    /\ ~IsNone(authenticated_user)
    /\ authenticated_user' = None
    /\ customer_id' = None
    /\ auth_role_pending' = None
    /\ customer_history' = <<>>
    /\ business_history' = <<>>
    /\ audit_log' = <<>>
    /\ page' = "selector"
    /\ biz_view' = "hub"
    /\ UNCHANGED <<data_vars, registrations, credentials_file, auth_call, last_raw_response, ui_message, db, leads, call_vars,
                   seen_vars, turns>>

\* render_chat_page: st.chat_input delivers p; the user turn is appended to the
\* history and handle_chat_interaction(p, role) runs up to its first model call.
\* lead_written: whether db.collection('leads').add succeeds
ChatInput(p, lead_written) ==
    /\ ChatShown
    /\ turns < MaxTurns
    /\ turns' = turns + 1
    /\ LET role == Persona
           hist == Append(history, [role |-> "user", content |-> p])
       IN /\ IF role = "customer"
             THEN /\ customer_history' = hist
                  /\ UNCHANGED business_history
             ELSE /\ business_history' = hist
                  /\ UNCHANGED customer_history
          /\ IF role = "customer"
             THEN leads' = log_customer_lead(db, leads, customer_id, p, lead_written)
             ELSE UNCHANGED leads
          /\ contents' = BuildContents(hist, p)
    /\ prompt' = Some(p)
    /\ attempt' = 0
    /\ pc' = "invoke"
    /\ response' = None
    /\ parts' = <<>>
    /\ current_tool_steps' = <<>>
    /\ returned' = None
    /\ model_calls' = <<>>
    /\ sleeps' = <<>>
    /\ tool_runs' = <<>>
    /\ UNCHANGED <<data_vars, registrations, credentials_file, auth_call, page, auth_role_pending, authenticated_user, customer_id,
                   biz_view, audit_log, last_raw_response, ui_message, db>>

\* the retry loop: generate_content returns resp
GenerateOk(resp) ==
    /\ pc = "invoke"
    /\ model_calls' = Append(model_calls, ModelCall(contents, TRUE, <<>>, Some(resp)))
    /\ response' = Some(resp)
    /\ parts' = DispatchParts(resp)
    /\ current_tool_steps' = <<>>
    /\ pc' = "dispatch"
    /\ UNCHANGED <<data_vars, registrations, credentials_file, auth_call, session_vars, ui_message, db, leads, prompt, contents,
                   attempt, returned, sleeps, tool_runs, turns>>

\* the retry loop: generate_content raises an exception whose text is error_str
GenerateFail(error_str) ==
    /\ pc = "invoke"
    /\ model_calls' = Append(model_calls, ModelCall(contents, FALSE, error_str, None))
    /\ IF IsTransient(error_str)
       THEN IF attempt < max_retries - 1
            THEN /\ sleeps' = Backoff(sleeps, attempt)
                 /\ attempt' = attempt + 1
                 /\ UNCHANGED <<pc, returned>>
            ELSE /\ returned' = Some([text |-> OverloadedMsg(error_str), steps |-> <<>>])
                 /\ pc' = "returned"
                 /\ UNCHANGED <<sleeps, attempt>>
       ELSE IF IsQuota(error_str)
       THEN /\ returned' = Some([text |-> QuotaMsg(error_str), steps |-> <<>>])
            /\ pc' = "returned"
            /\ UNCHANGED <<sleeps, attempt>>
       ELSE /\ returned' = Some([text |-> GenericErrorMsg(error_str), steps |-> <<>>])
            /\ pc' = "returned"
            /\ UNCHANGED <<sleeps, attempt>>
    /\ UNCHANGED <<data_vars, registrations, credentials_file, auth_call, session_vars, ui_message, db, leads, prompt, contents,
                   response, parts, current_tool_steps, tool_runs, turns>>

ToolCallStep(c) == [type |-> "Tool Call", name |-> c.name, args |-> c.args]
ToolOutputStep(out) == [type |-> "Tool Output", output |-> out]

\* the dispatch loop visits a part that carries no function call
DispatchNoCall ==
    /\ pc = "dispatch"
    /\ parts # <<>>
    /\ IsNone(Head(parts).function_call)
    /\ parts' = Tail(parts)
    /\ UNCHANGED <<data_vars, registrations, credentials_file, auth_call, session_vars, ui_message, db, leads, pc, prompt, contents,
                   attempt, response, current_tool_steps, returned, seen_vars, turns>>

\* the dispatch loop visits a function call whose name is not in function_map
DispatchUnregistered ==
    /\ pc = "dispatch"
    /\ parts # <<>>
    /\ ~IsNone(Head(parts).function_call)
    /\ LET func_call == Val(Head(parts).function_call)
       IN /\ func_call.name \notin function_map(Persona)
          /\ current_tool_steps' = Append(current_tool_steps, ToolCallStep(func_call))
    /\ parts' = Tail(parts)
    /\ UNCHANGED <<data_vars, registrations, credentials_file, auth_call, session_vars, ui_message, db, leads, pc, prompt, contents,
                   attempt, response, returned, seen_vars, turns>>

\* the dispatch loop visits a registered function call and runs the function.
\* follow_ok, follow_resp, follow_err: the outcome of the follow-up
\* generate_content call, when the code gets as far as making it
DispatchCall(follow_ok, follow_resp, follow_err) ==
    /\ pc = "dispatch"
    /\ parts # <<>>
    /\ ~IsNone(Head(parts).function_call)
    /\ LET func_call == Val(Head(parts).function_call)
           func_name == func_call.name
           func_args == func_call.args
           called == Append(current_tool_steps, ToolCallStep(func_call))
       IN /\ func_name \in function_map(Persona)
          /\ \E out \in CallTool(func_name, func_args) :
                /\ tool_runs' = Append(tool_runs, [name |-> func_name, args |-> func_args,
                                                   raised |-> out.raised, value |-> out.value])
                /\ pc' = IF out.raised /\ ~ExceptException(out.exc) THEN "raised" ELSE pc
                /\ IF out.raised
                   THEN \* the function raised: "except Exception" records the
                        \* error, any other exception leaves the handler
                        /\ current_tool_steps' =
                               IF ExceptException(out.exc)
                               THEN Append(called,
                                           ToolOutputStep(ToolErrorMsg(func_name, out.value)))
                               ELSE called
                        /\ UNCHANGED <<contents, response, model_calls>>
                   ELSE LET result == out.value
                            output == Append(called, ToolOutputStep(result))
                            function_response_content ==
                                Content("user", <<FunctionResponsePart(func_name, result)>>)
                            cands == Val(response).candidates
                        IN IF cands = <<>>
                           THEN \* response.candidates[0] raised
                                /\ current_tool_steps' =
                                       Append(output, ToolOutputStep(
                                           ToolErrorMsg(func_name, <<"list index out of range">>)))
                                /\ UNCHANGED <<contents, response, model_calls>>
                           ELSE LET sent == contents \o <<cands[1].content,
                                                          Some(function_response_content)>>
                                IN /\ contents' = sent
                                   /\ IF follow_ok
                                      THEN /\ model_calls' = Append(model_calls,
                                                  ModelCall(sent, TRUE, <<>>, Some(follow_resp)))
                                           /\ response' = Some(follow_resp)
                                           /\ current_tool_steps' = output
                                      ELSE /\ model_calls' = Append(model_calls,
                                                  ModelCall(sent, FALSE, follow_err, None))
                                           /\ UNCHANGED response
                                           /\ current_tool_steps' =
                                                  Append(output, ToolOutputStep(
                                                      ToolErrorMsg(func_name, follow_err)))
    /\ parts' = Tail(parts)
    /\ UNCHANGED <<data_vars, registrations, credentials_file, auth_call, session_vars, ui_message, db, leads, prompt, attempt,
                   returned, sleeps, turns>>

\* the dispatch loop is over: the raw response is kept, the text is extracted
\* and (response_text, current_tool_steps) is returned
ReturnAnswer ==
    /\ pc = "dispatch"
    /\ parts = <<>>
    /\ last_raw_response' = response
    /\ returned' = Some([text |-> ExtractText(Val(response)), steps |-> current_tool_steps])
    /\ pc' = "returned"
    /\ UNCHANGED <<data_vars, registrations, credentials_file, auth_call, page, auth_role_pending, authenticated_user, customer_id,
                   biz_view, customer_history, business_history, audit_log, ui_message, db,
                   leads, prompt, contents, attempt, response, parts, current_tool_steps,
                   seen_vars, turns>>

\* render_chat_page after the call: the trace becomes the audit log and the
\* assistant turn is appended to the history; the call and its locals are gone
ShowAnswer ==
    /\ pc = "returned"
    /\ LET final_text == Val(returned).text
           tool_steps == Val(returned).steps
           hist == Append(history, [role |-> "assistant", content |-> final_text])
       IN /\ audit_log' = tool_steps
          /\ IF Persona = "customer"
             THEN /\ customer_history' = hist
                  /\ UNCHANGED business_history
             ELSE /\ business_history' = hist
                  /\ UNCHANGED customer_history
    /\ pc' = "idle"
    /\ prompt' = None
    /\ contents' = <<>>
    /\ attempt' = 0
    /\ response' = None
    /\ parts' = <<>>
    /\ current_tool_steps' = <<>>
    /\ returned' = None
    /\ model_calls' = <<>>
    /\ sleeps' = <<>>
    /\ tool_runs' = <<>>
    /\ UNCHANGED <<data_vars, registrations, credentials_file, auth_call, page, auth_role_pending, authenticated_user, customer_id,
                   biz_view, last_raw_response, ui_message, db, leads, turns>>

BizViews == {"hub", "chat", "leads", "supply_chain"}

\* what the model may answer in the runs of whole sessions
SessionPrompts == {<<"where", "is", "my", "order">>}
SessionResponses ==
    { TextResponse(AnswerText),
      TextResponse(BlankText),
      CallResponse(<<CallOrders(CUST_002), CallPandas>>) }
SessionErrorTexts == { <<"503", " ", "UNAVAILABLE">>, <<"500", " ", "INTERNAL">> }

\* what the forms of the auth page may submit in the runs of whole sessions
SessionUsernames == {<<"alice">>}
SessionPasswords == {<<"s", "e", "c", "r", "e", "t">>, <<"a", "b", "c">>}
SessionCustomerIds == {<<" ", "cust_", "001", " ">>}

Next ==
    \/ \E role \in Roles : EnterPortal(role)
    \/ AuthBack
    \/ \E u \in SessionUsernames, p \in SessionPasswords, r \in BOOLEAN :
          authenticate_user(u, p, r)
    \/ \E u \in SessionUsernames, p \in SessionPasswords, c \in SessionCustomerIds,
          r \in BOOLEAN, w \in BOOLEAN :
          create_new_user(u, p, c, r, w)
    \/ \E view \in BizViews : SetBizView(view)
    \/ Logout
    \/ \E p \in SessionPrompts, w \in BOOLEAN : ChatInput(p, w)
    \/ \E resp \in SessionResponses : GenerateOk(resp)
    \/ \E error_str \in SessionErrorTexts : GenerateFail(error_str)
    \/ DispatchNoCall
    \/ DispatchUnregistered
    \/ \E ok \in BOOLEAN, resp \in SessionResponses, error_str \in SessionErrorTexts :
          DispatchCall(ok, resp, error_str)
    \/ ReturnAnswer
    \/ ShowAnswer

Spec == Init /\ [][Next]_vars

\* ------------------------------------------- the auth page of a session
\* The portal, login, registration and logout steps of a session, with every
\* input the forms may submit and every outcome of the credential file's I/O.
AuthNext ==
    \/ \E role \in Roles : EnterPortal(role)
    \/ AuthBack
    \/ \E u \in Usernames, p \in Passwords, r \in BOOLEAN : authenticate_user(u, p, r)
    \/ \E u \in Usernames, p \in Passwords, c \in CustomerIdInputs, r \in BOOLEAN, w \in BOOLEAN :
          create_new_user(u, p, c, r, w)
    \/ \E view \in BizViews : SetBizView(view)
    \/ Logout

AuthSpec == Init /\ [][AuthNext]_vars

\* ------------------------------------------------ the data tools, called
\* The tool functions of gtools.py called one at a time on every store: the
\* chat tools, the audit button's two checks, the notification check and the
\* supply chain view.
Result(raised, type, value) == [raised |-> raised, type |-> type, value |-> value]

\* the record of a call: the tool, its arguments, the time and its result
Recorded(tool, args, result) ==
    Some([tool |-> tool, args |-> args, at |-> now, result |-> result])

\* what a call of a data tool leaves alone
data_rest == <<credentials_file, session_vars, ui_message, auth_call, db, leads, store, now,
               prev_call, registrations, call_vars, seen_vars, turns>>

CallLoadData ==
    /\ data_call' = Recorded("load_data", <<>>,
           IF load_data.is_str THEN Result(FALSE, "str", load_data.text)
           ELSE Result(FALSE, "dict", load_data))
    /\ UNCHANGED data_rest

CallGetCustomerOrders(cid) ==
    /\ data_call' = Recorded("get_customer_orders", <<cid>>,
           Result(get_customer_orders(cid).raised, "str", get_customer_orders(cid).value))
    /\ UNCHANGED data_rest

CallExecutePandasCode(python_code) ==
    /\ data_call' = Recorded("execute_pandas_code_business", <<python_code>>,
           Result(execute_pandas_code_business(python_code).raised, "str",
                  execute_pandas_code_business(python_code).value))
    /\ UNCHANGED data_rest

CallCheckRevenueAnomalies(anomalies) ==
    /\ data_call' = Recorded("check_for_revenue_anomalies", <<>>,
           Result(FALSE, "str", check_for_revenue_anomalies(anomalies)))
    /\ UNCHANGED data_rest

CallCheckCriticalDelays ==
    /\ data_call' = Recorded("check_for_critical_delays", <<>>, Result(FALSE, "str", check_for_critical_delays))
    /\ UNCHANGED data_rest

CallCheckCustomerOrderStatus(cid) ==
    /\ data_call' = Recorded("check_customer_order_status", <<cid>>,
           Result(FALSE, "dict", check_customer_order_status(cid)))
    /\ UNCHANGED data_rest

CallSupplyChainPredictions ==
    /\ data_call' = Recorded("get_supply_chain_predictions", <<>>,
           Result(FALSE, "DataFrame", get_supply_chain_predictions))
    /\ UNCHANGED data_rest

\* time passes by half a day; no call has been made at the new time yet
Tick ==
    /\ now < MaxNow
    /\ now' = now + 1
    /\ data_call' = None
    /\ UNCHANGED <<credentials_file, session_vars, ui_message, auth_call, db, leads, store,
                   prev_call, registrations, call_vars, seen_vars, turns>>

\* the code execute_pandas_code_business is called with
PandasCodes ==
    {CodeSum, CodeCount, CodeText, CodeFrame, CodeNone, CodeNoResult, CodeKeyError, CodeExit,
     CodeGarbled}

\* the customer ids the tools are called with
ToolCustomerIds == {<<" ", "cust_", "001">>, <<"CUST_", "002">>, <<"CUST_", "404">>}

DataInit ==
    /\ \/ db = None /\ store = GoodStore
       \/ db = Some("firestore.client") /\ store \in FaultStores \cup TableStores
    /\ now = 2
    /\ data_call = None
    /\ prev_call = None
    /\ registrations = <<>>
    /\ credentials_file = EmptyMap
    /\ page = "selector"
    /\ auth_role_pending = None
    /\ authenticated_user = None
    /\ customer_id = None
    /\ biz_view = "hub"
    /\ customer_history = <<>>
    /\ business_history = <<>>
    /\ audit_log = <<>>
    /\ last_raw_response = None
    /\ ui_message = None
    /\ auth_call = None
    /\ leads = <<>>
    /\ pc = "idle"
    /\ prompt = None
    /\ contents = <<>>
    /\ attempt = 0
    /\ response = None
    /\ parts = <<>>
    /\ current_tool_steps = <<>>
    /\ returned = None
    /\ model_calls = <<>>
    /\ sleeps = <<>>
    /\ tool_runs = <<>>
    /\ turns = 0

DataNext ==
    \/ CallLoadData
    \/ \E cid \in ToolCustomerIds : CallGetCustomerOrders(cid)
    \/ CallExecutePandasCode(CodeSum)
    \/ \E flagged \in BOOLEAN :
          CallCheckRevenueAnomalies(IF flagged THEN {Len(store.revenue.docs)} ELSE {})
    \/ CallCheckCriticalDelays
    \/ \E cid \in ToolCustomerIds : CallCheckCustomerOrderStatus(cid)
    \/ CallSupplyChainPredictions
    \/ Tick

DataSpec == DataInit /\ [][DataNext]_vars

\* ------------------------------------- execute_pandas_code_business, called
\* execute_pandas_code_business called with every kind of code on every store
\* whose collections are present, empty or unreachable.
PandasInit ==
    /\ DataInit
    /\ IsNone(db) \/ store \in FaultStores

PandasNext ==
    \/ \E python_code \in PandasCodes : CallExecutePandasCode(python_code)
    \/ Tick

PandasSpec == PandasInit /\ [][PandasNext]_vars

\* ------------------------------------------- get_customer_orders, repeated
\* get_customer_orders called again and again on a store nobody writes to,
\* while time passes between the calls.

\* a repeated call that also files a lead
RepeatGetCustomerOrders_files_lead(cid) ==
    /\ prev_call' = data_call
    /\ data_call' = Recorded("get_customer_orders", <<cid>>,
           Result(get_customer_orders(cid).raised, "str", get_customer_orders(cid).value))
    /\ leads' = Append(leads, [customer_id |-> Upper(cid), message_preview |-> <<>>])
    /\ UNCHANGED <<credentials_file, session_vars, ui_message, auth_call, db, store, now,
                   registrations, call_vars, seen_vars, turns>>

\* get_customer_orders(cid), with the call before it remembered
RepeatGetCustomerOrders(cid) ==
    /\ prev_call' = data_call
    /\ data_call' = Recorded("get_customer_orders", <<cid>>,
           Result(get_customer_orders(cid).raised, "str", get_customer_orders(cid).value))
    /\ UNCHANGED <<credentials_file, session_vars, ui_message, auth_call, db, leads, store, now,
                   registrations, call_vars, seen_vars, turns>>

\* half a day passes between two calls
Pass ==
    /\ now < MaxNow
    /\ now' = now + 1
    /\ UNCHANGED <<credentials_file, session_vars, ui_message, auth_call, db, leads, store,
                   data_call, prev_call, registrations, call_vars, seen_vars, turns>>

\* the customer ids of the repeated calls
RepeatCustomerIds == {<<" ", "cust_", "001">>, <<"CUST_", "002">>}

RepeatInit ==
    /\ DataInit
    /\ ~IsNone(db)
    /\ store \in TableStores

RepeatNext ==
    \/ \E cid \in RepeatCustomerIds : RepeatGetCustomerOrders(cid)
    \/ Pass

RepeatSpec == RepeatInit /\ [][RepeatNext]_vars

\* ------------------------------------------------ concurrent registrations
\* Two browser sessions submit the registration form at about the same time.
\* Each run of create_new_user reads the credential file into its own
\* CREDENTIALS, and later validates, adds its record and rewrites the file;
\* nothing keeps another session's run from coming between the two.
Sessions == {"s1", "s2"}

RaceUsernames == {<<"alice">>, <<"bob">>}
RacePasswords == {<<"s", "e", "c", "r", "e", "t">>, <<"a", "b", "c">>}
RaceCustomerIds == {<<"CUST_", "002">>}

\* the record of carol, registered before
CarolData == [password |-> <<"p", "a", "s", "s", "w", "d">>, role |-> "business",
              customer_id |-> None]

\* create_new_user, first half: CREDENTIALS = load_credentials()
RegistrationLoads(session, new_username, new_password, role, new_customer_id, readable) ==
    /\ registrations # <<>>
    /\ registrations[session].pc = "idle"
    /\ registrations' =
          [registrations EXCEPT ![session] =
              [pc |-> "loaded", CREDENTIALS |-> load_credentials(readable),
               readable |-> readable,
               new_username |-> new_username, new_password |-> new_password,
               role |-> role, customer_id |-> new_customer_id]]
    /\ UNCHANGED <<credentials_file, session_vars, ui_message, auth_call, db, leads, data_vars,
                   call_vars, seen_vars, turns>>

\* a second half that adds its record to the file as it is now
RegistrationSaves_merging(session, writable) ==
    /\ registrations # <<>>
    /\ registrations[session].pc = "loaded"
    /\ LET call == registrations[session]
           rejection == Rejection(call.CREDENTIALS, call.new_username, call.new_password,
                                  call.role, call.customer_id)
           user_data == NewUserData(call.new_password, call.role, call.customer_id)
       IN /\ registrations' =
                [registrations EXCEPT ![session] =
                    [call EXCEPT !.pc = IF ~IsNone(rejection) THEN "rejected"
                                         ELSE IF writable THEN "created" ELSE "not_saved"]]
          /\ credentials_file' =
                IF IsNone(rejection) /\ writable
                THEN MapSet(credentials_file, call.new_username, user_data)
                ELSE credentials_file
    /\ UNCHANGED <<session_vars, ui_message, auth_call, db, leads, data_vars,
                   call_vars, seen_vars, turns>>

\* create_new_user, second half: the checks, CREDENTIALS[new_username] =
\* user_data and save_credentials(CREDENTIALS), which rewrites the whole file
RegistrationSaves(session, writable) ==
    /\ registrations # <<>>
    /\ registrations[session].pc = "loaded"
    /\ LET call == registrations[session]
           rejection == Rejection(call.CREDENTIALS, call.new_username, call.new_password,
                                  call.role, call.customer_id)
           user_data == NewUserData(call.new_password, call.role, call.customer_id)
       IN /\ registrations' =
                [registrations EXCEPT ![session] =
                    [call EXCEPT !.pc = IF ~IsNone(rejection) THEN "rejected"
                                         ELSE IF writable THEN "created" ELSE "not_saved"]]
          /\ credentials_file' =
                IF IsNone(rejection) /\ writable
                THEN MapSet(call.CREDENTIALS, call.new_username, user_data)
                ELSE credentials_file
    /\ UNCHANGED <<session_vars, ui_message, auth_call, db, leads, data_vars,
                   call_vars, seen_vars, turns>>

RaceInit ==
    /\ credentials_file \in {EmptyMap, MapSet(EmptyMap, <<"carol">>, CarolData)}
    /\ registrations = [session \in Sessions |-> [pc |-> "idle"]]
    /\ page = "auth"
    /\ auth_role_pending = Some("customer")
    /\ authenticated_user = None
    /\ customer_id = None
    /\ biz_view = "hub"
    /\ customer_history = <<>>
    /\ business_history = <<>>
    /\ audit_log = <<>>
    /\ last_raw_response = None
    /\ ui_message = None
    /\ auth_call = None
    /\ db = None
    /\ leads = <<>>
    /\ store = GoodStore
    /\ now = 2
    /\ data_call = None
    /\ prev_call = None
    /\ pc = "idle"
    /\ prompt = None
    /\ contents = <<>>
    /\ attempt = 0
    /\ response = None
    /\ parts = <<>>
    /\ current_tool_steps = <<>>
    /\ returned = None
    /\ model_calls = <<>>
    /\ sleeps = <<>>
    /\ tool_runs = <<>>
    /\ turns = 0

RaceNext ==
    \/ \E session \in Sessions, new_username \in RaceUsernames, new_password \in RacePasswords,
          role \in Roles, readable \in BOOLEAN :
          RegistrationLoads(session, new_username, new_password, role,
                            IF role = "customer"
                            THEN Some(CHOOSE c \in RaceCustomerIds : TRUE) ELSE None,
                            readable)
    \/ \E session \in Sessions, writable \in BOOLEAN : RegistrationSaves(session, writable)

RaceSpec == RaceInit /\ [][RaceNext]_vars

\* ---------------------------------------------- one chat turn of a session
\* The last turn of a session that is already logged in: the session state is
\* drawn from the states Spec reaches after MaxTurns - 1 turns (the user alice
\* registered and logged in, earlier turns answered, possibly a logout and a
\* new login in between), and the turn runs from the chat input to the answer
\* shown.
PriorAnswers == {AnswerText, ApologyMsg}

\* the response that produced a prior answer
PriorResponse(answer) ==
    IF answer = AnswerText THEN TextResponse(AnswerText) ELSE TextResponse(BlankText)

RECURSIVE PriorHistories(_)
PriorHistories(n) ==
    IF n = 0 THEN {<<>>}
    ELSE LET shorter == PriorHistories(n - 1)
         IN shorter \cup
            { h \o <<[role |-> "user", content |-> p], [role |-> "assistant", content |-> a]>> :
                h \in {g \in shorter : Len(g) = 2 * (n - 1)}, p \in Prompts, a \in PriorAnswers }

TurnInit ==
    /\ \E role \in Roles, hist \in PriorHistories(MaxTurns - 1) :
          /\ credentials_file =
                 MapSet(EmptyMap, <<"alice">>,
                        [password |-> <<"s", "e", "c", "r", "e", "t">>,
                         role |-> role,
                         customer_id |-> IF role = "customer" THEN Some(CUST_001) ELSE None])
          /\ page = IF role = "customer" THEN "customer_chat" ELSE "business_chat"
          /\ customer_id = IF role = "customer" THEN Some(CUST_001) ELSE None
          /\ biz_view = IF role = "customer" THEN "hub" ELSE "chat"
          /\ customer_history = IF role = "customer" THEN hist ELSE <<>>
          /\ business_history = IF role = "customer" THEN <<>> ELSE hist
          /\ last_raw_response = IF hist = <<>> THEN None
                                 ELSE Some(PriorResponse(hist[Len(hist)].content))
    /\ auth_role_pending = None
    /\ authenticated_user = Some(<<"alice">>)
    /\ audit_log = <<>>
    /\ ui_message = None
    /\ auth_call = Some([func |-> "authenticate_user", username |-> <<"alice">>,
                         password |-> <<"s", "e", "c", "r", "e", "t">>,
                         expected_role |-> IF page = "customer_chat" THEN "customer"
                                           ELSE "business",
                         readable |-> TRUE])
    /\ \/ db = None /\ store = GoodStore
       \/ db = Some("firestore.client") /\ store \in TurnStores
    /\ leads = <<>>
    /\ now = 2
    /\ data_call = None
    /\ prev_call = None
    /\ registrations = <<>>
    /\ pc = "idle"
    /\ prompt = None
    /\ contents = <<>>
    /\ attempt = 0
    /\ response = None
    /\ parts = <<>>
    /\ current_tool_steps = <<>>
    /\ returned = None
    /\ model_calls = <<>>
    /\ sleeps = <<>>
    /\ tool_runs = <<>>
    /\ turns = MaxTurns - 1

TurnNext ==
    \/ \E p \in Prompts, w \in BOOLEAN : ChatInput(p, w)
    \/ \E resp \in Responses : GenerateOk(resp)
    \/ \E error_str \in ErrorTexts : GenerateFail(error_str)
    \/ DispatchNoCall
    \/ DispatchUnregistered
    \/ \E ok \in BOOLEAN, resp \in Responses, error_str \in ErrorTexts :
          DispatchCall(ok, resp, error_str)
    \/ ReturnAnswer
    \/ ShowAnswer

TurnSpec == TurnInit /\ [][TurnNext]_vars

\* ------------------------------------------------------------ properties
\* the handler has returned to the chat page
Returned == pc = "returned"

\* an error text that signals a transient failure: rate limit or overload
TransientSignal(e) ==
    \E i \in 1..Len(e) : e[i] \in {"429", "503", "RESOURCE_EXHAUSTED", "UNAVAILABLE"}

\* an error text that mentions quota, in any letter case
QuotaSignal(e) == \E i \in 1..Len(e) : e[i] \in {"quota", "Quota", "QUOTA"}

\* the model calls made with the same contents as call j: its attempts
Attempts(j) == {k \in 1..Len(model_calls) : model_calls[k].contents = model_calls[j].contents}

\* the first call failed on attempts 1 and 2 with a transient signal
TwoTransientFailures ==
    /\ Len(model_calls) >= 2
    /\ \A j \in 1..2 : ~model_calls[j].ok /\ TransientSignal(model_calls[j].error)

\* C1: in a customer-persona turn every execution of get_customer_orders gets
\* the session's own customer_id as its customer_id argument, whatever the
\* model's function call carries.
C1_OrdersCalledWithSessionId ==
    page = "customer_chat" =>
        \A i \in 1..Len(tool_runs) :
            (/\ tool_runs[i].name = "get_customer_orders"
             /\ "customer_id" \in DOMAIN tool_runs[i].args)
                => tool_runs[i].args.customer_id = Val(customer_id)

\* the context the first model call is expected to carry: the completed turns
\* with assistant mapped to model, then the utterance once
ExpectedFirstContext(completed, utterance) ==
    [i \in 1..(Len(completed) + 1) |->
        IF i <= Len(completed)
        THEN Some([role |-> IF completed[i].role = "assistant" THEN "model" ELSE "user",
                   parts |-> Some(<<TextPart(completed[i].content)>>)])
        ELSE Some([role |-> "user", parts |-> Some(<<TextPart(utterance)>>)])]

\* C2: the context of the first model call of a turn is the turns completed
\* before the utterance, in order and role-remapped, followed by the utterance
\* exactly once.
C2_FirstContextIsHistoryThenPrompt ==
    (pc \in {"invoke", "dispatch", "returned"} /\ model_calls # <<>>) =>
        model_calls[1].contents =
            ExpectedFirstContext(SubSeq(history, 1, Len(history) - 1), Val(prompt))

\* the text txt is carried by a part of the context ctx
Mentions(ctx, txt) ==
    \E k \in 1..Len(ctx) :
        /\ ~IsNone(ctx[k])
        /\ ~IsNone(Val(ctx[k]).parts)
        /\ \E n \in 1..Len(Val(Val(ctx[k]).parts)) :
              LET part == Val(Val(ctx[k]).parts)[n]
              IN \/ part.text = Some(txt)
                 \/ /\ ~IsNone(part.function_response)
                    /\ Val(part.function_response).response.result = txt

\* C3: when a dispatched tool raises, its error text is fed back: the model is
\* invoked with that error in its context before the turn's answer is returned.
C3_ToolErrorFedBackToModel ==
    Returned =>
        \A i \in 1..Len(tool_runs) :
            tool_runs[i].raised =>
                \E j \in 1..Len(model_calls) :
                    \/ Mentions(model_calls[j].contents, tool_runs[i].value)
                    \/ Mentions(model_calls[j].contents,
                                ToolErrorMsg(tool_runs[i].name, tool_runs[i].value))

IsToolCall(step) == step.type = "Tool Call"
HasFunctionCall(part) == ~IsNone(part.function_call)

\* the function calls of a response: those of the parts of its first candidate
RequestedCalls(resp) ==
    IF resp.candidates = <<>> \/ IsNone(resp.candidates[1].content)
       \/ IsNone(Val(resp.candidates[1].content).parts)
    THEN <<>>
    ELSE SelectSeq(Val(Val(resp.candidates[1].content).parts), HasFunctionCall)

\* the response of the first model call that succeeded
FirstResponse ==
    Val(model_calls[CHOOSE j \in 1..Len(model_calls) :
                        model_calls[j].ok /\ \A k \in 1..(j - 1) : ~model_calls[k].ok].response)

\* C4 as stated: in the returned trace every Tool Call step is directly
\* followed by a Tool Output step.
C4_EveryToolCallHasOutput ==
    Returned =>
        LET steps == Val(returned).steps
        IN \A i \in 1..Len(steps) :
              IsToolCall(steps[i]) => i < Len(steps) /\ ~IsToolCall(steps[i + 1])

\* C4 amended: the Tool Call steps of the returned trace are the function calls
\* of the first model response, in order; a call of a function registered for
\* the persona is directly followed by a Tool Output step, a call of any other
\* name by none; no Tool Output step comes before the first Tool Call.
C4_RegisteredCallsHaveOutput ==
    (Returned /\ ~IsNone(response)) =>
        LET steps == Val(returned).steps
            calls == RequestedCalls(FirstResponse)
            traced == SelectSeq(steps, IsToolCall)
        IN /\ Len(traced) = Len(calls)
           /\ \A k \in 1..Len(calls) :
                 /\ traced[k].name = Val(calls[k].function_call).name
                 /\ traced[k].args = Val(calls[k].function_call).args
           /\ steps # <<>> => IsToolCall(steps[1])
           /\ \A i \in 1..Len(steps) :
                 IsToolCall(steps[i]) =>
                     IF steps[i].name \in function_map(Persona)
                     THEN i < Len(steps) /\ ~IsToolCall(steps[i + 1])
                     ELSE i = Len(steps) \/ IsToolCall(steps[i + 1])

\* a trace with a registered call and its output, then an unregistered call
C4_Witness ==
    /\ Returned
    /\ Len(Val(returned).steps) = 3
    /\ IsToolCall(Val(returned).steps[1])
    /\ ~IsToolCall(Val(returned).steps[2])
    /\ IsToolCall(Val(returned).steps[3])

\* C5: transient failures on attempts 1 and 2 and success on attempt 3: exactly
\* 2 sleeps, exactly 3 attempts, and the turn goes on with the response of
\* attempt 3.
C5_TwoSleepsThenSuccess ==
    (TwoTransientFailures /\ Len(model_calls) >= 3 /\ model_calls[3].ok) =>
        /\ Len(sleeps) = 2
        /\ Attempts(1) = 1..3
        /\ pc \in {"dispatch", "returned", "idle", "raised"}
        /\ (\A j \in 4..Len(model_calls) : ~model_calls[j].ok) =>
              /\ response = model_calls[3].response
              /\ pc \in {"returned", "idle"} =>
                    /\ last_raw_response = model_calls[3].response
                    /\ Val(returned).text = ExtractText(Val(model_calls[3].response))

C5_Witness ==
    /\ TwoTransientFailures
    /\ Len(model_calls) = 3
    /\ model_calls[3].ok
    /\ Returned
    /\ Val(returned).text = AnswerText

\* C6: transient failures on all 3 attempts: the service-overloaded error
\* string is returned with an empty trace, no tool is dispatched and no fourth
\* attempt is made.
C6_OverloadedAfterThreeAttempts ==
    (TwoTransientFailures /\ Len(model_calls) >= 3
        /\ ~model_calls[3].ok /\ TransientSignal(model_calls[3].error)) =>
        /\ Len(model_calls) = 3
        /\ Len(sleeps) = 2
        /\ pc \in {"returned", "idle"}
        /\ returned = Some([text |-> OverloadedMsg(model_calls[3].error), steps |-> <<>>])
        /\ tool_runs = <<>>
        /\ current_tool_steps = <<>>

C6_Witness ==
    /\ TwoTransientFailures
    /\ Len(model_calls) = 3
    /\ ~model_calls[3].ok
    /\ Returned

\* C7: a failure of the first model call whose text mentions quota is never
\* retried: one attempt, no sleep, the quota-exceeded error string returned.
C7_QuotaNeverRetried ==
    (model_calls # <<>> /\ ~model_calls[1].ok /\ QuotaSignal(model_calls[1].error)) =>
        /\ Len(model_calls) = 1
        /\ sleeps = <<>>
        /\ pc \in {"returned", "idle"}
        /\ returned = Some([text |-> QuotaMsg(model_calls[1].error), steps |-> <<>>])

\* C8: every model invocation of a turn is under the bounded retry: a transient
\* failure is either retried or is the third attempt and surfaces as the
\* service-overloaded error string.
C8_EveryInvocationRetried ==
    Returned =>
        \A j \in 1..Len(model_calls) :
            (~model_calls[j].ok /\ TransientSignal(model_calls[j].error)) =>
                \/ \E k \in (j + 1)..Len(model_calls) : k \in Attempts(j)
                \/ /\ Cardinality(Attempts(j)) = 3
                   /\ Val(returned).text = OverloadedMsg(model_calls[j].error)

\* C9: a failure of the first model call without transient marker: one
\* attempt, no sleep, the quota message or the generic message returned with an
\* empty trace.
C9_NonTransientFailsAtOnce ==
    (model_calls # <<>> /\ ~model_calls[1].ok /\ ~TransientSignal(model_calls[1].error)) =>
        /\ Len(model_calls) = 1
        /\ sleeps = <<>>
        /\ pc \in {"returned", "idle"}
        /\ tool_runs = <<>>
        /\ returned = Some([text |-> IF QuotaSignal(model_calls[1].error)
                                     THEN QuotaMsg(model_calls[1].error)
                                     ELSE GenericErrorMsg(model_calls[1].error),
                            steps |-> <<>>])

C9_Witness ==
    /\ Returned
    /\ Len(model_calls) = 1
    /\ ~model_calls[1].ok
    /\ QuotaSignal(model_calls[1].error)
    /\ ~TransientSignal(model_calls[1].error)

\* a text that is empty or whitespace-only
Blank(t) == \A i \in 1..Len(t) : t[i] \in {" ", "\n"}

\* a candidate of resp has a content whose parts is None
PartsMissing(resp) ==
    \E i \in 1..Len(resp.candidates) :
        /\ ~IsNone(resp.candidates[i].content)
        /\ IsNone(Val(resp.candidates[i].content).parts)

\* neither response.text nor a text part of a candidate gives text
NoExtractableText(resp) ==
    /\ IsNone(resp.text) \/ Val(resp.text) = <<>>
    /\ \A i \in 1..Len(resp.candidates) :
          \/ IsNone(resp.candidates[i].content)
          \/ IsNone(Val(resp.candidates[i].content).parts)
          \/ \A n \in 1..Len(Val(Val(resp.candidates[i].content).parts)) :
                LET part == Val(Val(resp.candidates[i].content).parts)[n]
                IN IsNone(part.text) \/ Val(part.text) = <<>>

\* C10 as stated: the returned answer is never blank, and it is the apologetic
\* message whenever the last response has no extractable text.
C10_ApologyWheneverNoText ==
    Returned =>
        /\ ~Blank(Val(returned).text)
        /\ (~IsNone(response) /\ NoExtractableText(Val(response))) =>
              Val(returned).text = ApologyMsg

\* C10 amended: the returned answer is never blank; when the last response has
\* no extractable text it is the apologetic message, unless a candidate's
\* content has parts = None, where it is the error-processing message.
C10_FixedMessageWhenNoText ==
    Returned =>
        /\ ~Blank(Val(returned).text)
        /\ (~IsNone(response) /\ NoExtractableText(Val(response))) =>
              Val(returned).text =
                  IF PartsMissing(Val(response)) THEN ExtractErrorMsg ELSE ApologyMsg
        /\ (~IsNone(response) /\ ~IsNone(Val(response).text) /\ Blank(Val(Val(response).text))) =>
              Val(returned).text = ApologyMsg

C10_Witness ==
    /\ Returned
    /\ ~IsNone(response)
    /\ NoExtractableText(Val(response))
    /\ PartsMissing(Val(response))
    /\ Val(returned).text = ExtractErrorMsg

\* ----------------------------------------------- properties of the auth page
\* the step is a call of authenticate_user (its arguments are in auth_call')
LoginStep ==
    /\ page = "auth"
    /\ ~IsNone(auth_call')
    /\ Val(auth_call').func = "authenticate_user"

\* the step is a call of create_new_user (its arguments are in auth_call')
RegisterStep ==
    /\ page = "auth"
    /\ ~IsNone(auth_call')
    /\ Val(auth_call').func = "create_new_user"

\* the arguments of a registration are valid: a non-empty username, a password
\* of at least 6 characters, and a customer id when the role is customer
ValidRegistration(c) ==
    /\ c.new_username # <<>>
    /\ Len(c.new_password) >= 6
    /\ c.role = "customer" => (~IsNone(c.customer_id) /\ Val(c.customer_id) # <<>>)

\* the record a registration is expected to store
ExpectedRecord(c) ==
    [password |-> c.new_password,
     role |-> c.role,
     customer_id |-> IF c.role = "customer"
                     THEN Some(Upper(Strip(Val(c.customer_id))))
                     ELSE None]

\* the session after a successful login of username as role, with stored record rec
LoggedInAs(username, role, rec) ==
    /\ authenticated_user' = Some(username)
    /\ page' = (IF role = "customer" THEN "customer_chat" ELSE "business_chat")
    /\ role = "customer" => customer_id' = rec.customer_id

Loaded(c) == IF c.readable THEN credentials_file ELSE EmptyMap

RejectionMessages ==
    { Some("User ID and Password cannot be empty."),
      Some("Registration failed: User ID already exists."),
      Some("Password must be at least 6 characters long."),
      Some("Customer ID is required for customer accounts.") }

C14_CustomerRecordsCarryId ==
    \A u \in DOMAIN credentials_file :
        /\ credentials_file[u].role \in Roles
        /\ credentials_file[u].role = "customer" =>
              (~IsNone(credentials_file[u].customer_id)
               /\ Val(credentials_file[u].customer_id) # <<>>)

\* ---------------------------------------------- properties of the chat page
IsPrefix(s, t) == Len(s) <= Len(t) /\ SubSeq(t, 1, Len(s)) = s

\* C15: while a chat page stays shown both histories only grow: the chat input
\* appends the user turn to the persona's history, the answer appends the
\* assistant turn after it, and no other step changes a history; logout
\* empties customer_history, business_history and audit_log, clears
\* authenticated_user and customer_id and shows the selector.
C15_HistoryAppendOnlyClearedOnLogout ==
    [][/\ (page \in {"customer_chat", "business_chat"} /\ page' = page) =>
            LET customer == page = "customer_chat"
                before == IF customer THEN customer_history ELSE business_history
                after == IF customer THEN customer_history' ELSE business_history'
            IN /\ IsPrefix(customer_history, customer_history')
               /\ IsPrefix(business_history, business_history')
               /\ IF customer THEN business_history' = business_history
                  ELSE customer_history' = customer_history
               /\ IF turns' = turns + 1
                  THEN after = Append(before, [role |-> "user", content |-> Val(prompt')])
                  ELSE IF pc = "returned" /\ pc' = "idle"
                  THEN /\ before # <<>>
                       /\ before[Len(before)] = [role |-> "user", content |-> Val(prompt)]
                       /\ after = Append(before, [role |-> "assistant",
                                                  content |-> Val(returned).text])
                  ELSE after = before
       /\ (page \in {"customer_chat", "business_chat"} /\ page' # page) =>
            /\ page' = "selector"
            /\ customer_history' = <<>>
            /\ business_history' = <<>>
            /\ audit_log' = <<>>
            /\ authenticated_user' = None
            /\ customer_id' = None
      ]_vars

\* a session that answered a turn with a tool trace has logged out
C15_Witness ==
    /\ page = "selector"
    /\ turns >= 1
    /\ ~IsNone(last_raw_response)
    /\ Val(last_raw_response) # TextResponse(AnswerText)
    /\ customer_history = <<>>
    /\ business_history = <<>>
    /\ audit_log = <<>>
    /\ IsNone(authenticated_user)
    /\ IsNone(customer_id)

\* the lead document expected for an utterance of the session's customer
ExpectedLead(cid, utterance) ==
    [customer_id |-> Upper(cid),
     preview |-> IF Len(utterance) > 50 THEN SubSeq(utterance, 1, 50) \o <<"...">>
                 ELSE utterance,
     type |-> "Chat Interaction"]

\* C16: the chat input of a customer turn goes on to the first model call with
\* the same context whether the lead was written or not (the store is not
\* initialised, the write raises, or the session has no customer_id), a turn
\* that returns has called the model, and at most the one lead document is
\* appended; a business turn, and every later step of a turn, writes no lead.
C16_LeadFailureIsSwallowed ==
    [][/\ IF turns' = turns + 1
          THEN LET customer == page = "customer_chat"
                   hist == IF customer THEN customer_history' ELSE business_history'
               IN /\ pc' = "invoke"
                  /\ IsNone(returned')
                  /\ contents' = BuildContents(hist, Val(prompt'))
                  /\ IF customer /\ ~IsNone(db) /\ ~IsNone(customer_id)
                     THEN \/ leads' = leads
                          \/ leads' = Append(leads, ExpectedLead(Val(customer_id), Val(prompt')))
                     ELSE leads' = leads
          ELSE leads' = leads
       /\ pc' = "returned" => (~IsNone(returned') /\ model_calls' # <<>>)
       /\ \A p \in Prompts, w \in BOOLEAN :
             log_customer_lead(db, leads, None, p, w) = leads
      ]_vars

\* a customer turn whose lead could not be written has returned an answer
\* with its tool trace
C16_Witness ==
    /\ page = "customer_chat"
    /\ ~IsNone(db)
    /\ leads = <<>>
    /\ Returned
    /\ model_calls # <<>>
    /\ Val(returned).steps # <<>>

\* --------------------------------------------------------- the data tools
\* the collections whose fetch fails or gives nothing
FailingCollections ==
    {c \in Collections : IsNone(db) \/ store[c].raised \/ store[c].docs = <<>>}

\* the name load_data gives a collection in its error
ErrorLabel(c) ==
    CASE c = "customers" -> "Customers"
      [] c = "orders" -> "Orders"
      [] c = "products" -> "Products"
      [] c = "revenue" -> "Revenue"

\* the last call was a call of the tool
LastCall(tool) == ~IsNone(data_call) /\ Val(data_call).tool = tool

\* C17: load_data is all-or-nothing. If the fetch of any of the four
\* collections fails or is empty, it returns one error string that names every
\* failing collection (and no other) and no table; only when all four fetches
\* succeed does it return the four tables together.
C17_LoadIsAllOrNothing ==
    LastCall("load_data") =>
        LET result == Val(data_call).result
        IN /\ ~result.raised
           /\ IF FailingCollections = {}
              THEN /\ result.type = "dict"
                   /\ result.value.customers_df = CleanCustomerIds(store.customers.docs)
                   /\ result.value.orders_df = CleanCustomerIds(store.orders.docs)
                   /\ result.value.products_df = store.products.docs
                   /\ result.value.revenue_df = store.revenue.docs
              ELSE /\ result.type = "str"
                   /\ IsPrefix(<<"Data Load Error", ": ">>, result.value)
                   /\ \A c \in Collections :
                         Contains(result.value, ErrorLabel(c)) <=> c \in FailingCollections

\* load_data was called on a store where two of the four fetches fail, one by
\* an exception and one by an empty collection
C17_Witness ==
    /\ LastCall("load_data")
    /\ Cardinality(FailingCollections) = 2
    /\ \E c \in FailingCollections : store[c].raised
    /\ \E c \in FailingCollections : ~store[c].raised
    /\ Val(data_call).result.type = "str"

\* the tools that read the document-store tables
DependentTools ==
    {"get_customer_orders", "execute_pandas_code_business", "check_for_revenue_anomalies",
     "check_for_critical_delays", "check_customer_order_status",
     "get_supply_chain_predictions"}

\* C18: when the data load fails, every tool that depends on the tables
\* returns exactly the error string of the load, without raising and without
\* computing on partial data.
C18_DependentToolsReturnLoadError ==
    (~IsNone(data_call) /\ Val(data_call).tool \in DependentTools /\ load_data.is_str) =>
        /\ ~Val(data_call).result.raised
        /\ Val(data_call).result.type = "str"
        /\ Val(data_call).result.value = load_data.text

\* the ids of the orders of the store that are overdue on the current date:
\* a delivery date, on a day before today, and neither delivered nor cancelled
OverdueOrderIds ==
    {store.orders.docs[i].order_id : i \in
        {j \in 1..Len(store.orders.docs) :
            /\ ~IsNone(store.orders.docs[j].est_delivery)
            /\ Val(store.orders.docs[j].est_delivery) \div 2 < now \div 2
            /\ store.orders.docs[j].status \notin {"Delivered", "Cancelled"}}}

\* the order ids a text names
ListedOrderIds(text) == {OrderIds[i] : i \in {j \in 1..Len(OrderIds) : Contains(text, OrderIds[j])}}

OrdersOf(cid) ==
    {j \in 1..Len(store.orders.docs) :
        Upper(Strip(store.orders.docs[j].customer_id)) = Upper(Strip(cid))}

\* the customer id is one of the customers collection
KnownCustomer(cid) ==
    \E j \in 1..Len(store.customers.docs) :
        Upper(Strip(store.customers.docs[j].customer_id)) = Upper(Strip(cid))

\* the part of a report about one order: from its id to the next order
OrderSegment(text, order_id) ==
    LET at == CHOOSE i \in 1..Len(text) : text[i] = order_id
        later == {k \in (at + 1)..Len(text) : text[k] = "Order ID:"}
        end == IF later = {} THEN Len(text)
               ELSE (CHOOSE k \in later : \A m \in later : k <= m) - 1
    IN SubSeq(text, at, end)

\* C20: for every customer id of the customers table, matched after trimming
\* and upper-casing, get_customer_orders lists every order of that customer
\* and no other order, keeps an order whose product is unknown, and marks as
\* DELAYED exactly the listed orders with a delivery date in the past and a
\* status other than Delivered and Cancelled. (The products table has its
\* price column.)
C20_ReportListsTheCustomersOrders ==
    (/\ LastCall("get_customer_orders")
     /\ ~load_data.is_str
     /\ HasColumn(store.products.docs, "price")
     /\ KnownCustomer(Val(data_call).args[1])) =>
        LET text == Val(data_call).result.value
            mine == OrdersOf(Val(data_call).args[1])
        IN /\ ~Val(data_call).result.raised
           /\ ListedOrderIds(text) = {store.orders.docs[j].order_id : j \in mine}
           /\ mine # {} => Contains(text, "Total Orders:")
           /\ \A j \in mine :
                 LET o == store.orders.docs[j]
                 IN Contains(OrderSegment(text, o.order_id), "DELAYED:")
                      <=> /\ ~IsNone(o.est_delivery)
                          /\ Val(o.est_delivery) < now
                          /\ o.status \notin {"Delivered", "Cancelled"}

\* the report of a customer typed in lower case with spaces: two orders, the
\* shipped overdue one marked, the delivered one of an unknown product listed
\* and not marked
C20_Witness ==
    /\ LastCall("get_customer_orders")
    /\ ~load_data.is_str
    /\ Val(data_call).args[1] = <<" ", "cust_", "001">>
    /\ Len(store.orders.docs) = 2
    /\ OrdersOf(Val(data_call).args[1]) = {1, 2}
    /\ store.orders.docs[1].status = "Shipped"
    /\ store.orders.docs[1].est_delivery = Some(1)
    /\ store.orders.docs[2].status = "Delivered"
    /\ store.orders.docs[2].est_delivery = Some(1)
    /\ Contains(OrderSegment(Val(data_call).result.value, "ORD_1"), "DELAYED:")
    /\ Contains(OrderSegment(Val(data_call).result.value, "ORD_2"), "nan")
    /\ ~Contains(OrderSegment(Val(data_call).result.value, "ORD_2"), "DELAYED:")

\* ------------------------------------------------ repeated calls, the race
\* a step that is a call of get_customer_orders
OrdersCallStep == data_call' # data_call \/ prev_call' # prev_call

\* the call left the document store, the credentials and the session alone
CallWroteNothing == UNCHANGED <<store, leads, db, credentials_file, session_vars, ui_message>>

\* the call and the call before it had the same customer id
SameIdAsBefore ==
    /\ ~IsNone(prev_call')
    /\ Val(prev_call').args = Val(data_call').args

ExpectedPandasAnswer(python_code) ==
    CASE python_code = CodeSum ->
           <<"Result", "\n", ToString(SumAmounts(store.revenue.docs))>>
      [] python_code = CodeCount -> <<"Result", "\n", ToString(Len(store.orders.docs))>>
      [] python_code = CodeText -> <<"done">>
      [] python_code = CodeFrame ->
           <<"Total Records: ", ToString(Len(store.customers.docs)), "\n">>
           \o RecordLines([i \in 1..Len(store.customers.docs) |-> store.customers.docs[i].name], 1)
      [] python_code = CodeNone -> NoneWarning
      [] python_code = CodeNoResult -> NoResultError
      [] python_code = CodeKeyError -> ExecutionError(<<"'amount'">>)
      [] python_code = CodeGarbled -> ExecutionError(<<"invalid syntax">>)
      [] python_code = CodeExit -> ExecutionError(<<"1">>)

\* C22: execute_pandas_code_business never crashes, whatever the submitted
\* code does: it returns the load error string when loading fails, the
\* 'Python Execution Error' string when the code raises, the missing-result
\* error when the code binds no result, the None warning when result is
\* None, and otherwise the formatted value.
C22_PandasToolNeverCrashes ==
    LastCall("execute_pandas_code_business") =>
        /\ ~Val(data_call).result.raised
        /\ Val(data_call).result.value =
              IF FailingCollections # {} THEN load_data.text
              ELSE ExpectedPandasAnswer(Val(data_call).args[1])

\* -------------------------------------------------- the personas' tool sets
\* the calls of a response whose name is registered for the persona
RegisteredCalls(resp) ==
    SelectSeq(RequestedCalls(resp),
              LAMBDA part : Val(part.function_call).name \in function_map(Persona))

\* C23: the two personas have disjoint tool sets: a customer turn never
\* executes execute_pandas_code_business, a business turn never executes
\* get_customer_orders, whatever name the model requests, and a requested
\* name outside the persona's set executes no function at all.
C23_PersonasRunOnlyTheirOwnTool ==
    /\ \A i \in 1..Len(tool_runs) :
          /\ page = "customer_chat" => tool_runs[i].name = "get_customer_orders"
          /\ page = "business_chat" => tool_runs[i].name = "execute_pandas_code_business"
    /\ (Returned /\ ~IsNone(response)) =>
          /\ Len(tool_runs) = Len(RegisteredCalls(FirstResponse))
          /\ \A i \in 1..Len(tool_runs) :
                /\ tool_runs[i].name = Val(RegisteredCalls(FirstResponse)[i].function_call).name
                /\ tool_runs[i].args = Val(RegisteredCalls(FirstResponse)[i].function_call).args

\* a customer turn whose response asked for get_customer_orders and for
\* execute_pandas_code_business has run the first and only the first
C23_Witness ==
    /\ Returned
    /\ page = "customer_chat"
    /\ model_calls # <<>>
    /\ model_calls[1].ok
    /\ Len(RequestedCalls(FirstResponse)) = 2
    /\ Val(RequestedCalls(FirstResponse)[2].function_call).name = "execute_pandas_code_business"
    /\ Len(tool_runs) = 1
    /\ tool_runs[1].name = "get_customer_orders"
    /\ Len(SelectSeq(Val(returned).steps, IsToolCall)) = 2

\* both sessions' registrations reported success, for different usernames
BothCreated ==
    /\ registrations # <<>>
    /\ \A session \in Sessions : registrations[session].pc = "created"
    /\ registrations["s1"].new_username # registrations["s2"].new_username

\* the usernames of the two registrations that are in the credential file
KeptOfTheTwo ==
    {registrations[session].new_username : session \in Sessions} \cap DOMAIN credentials_file

\* the session read the file before the other session's record was in it
ReadBefore(session, other) ==
    registrations[other].new_username \notin DOMAIN registrations[session].CREDENTIALS

\* C24: concurrent registrations can race and lose updates. Whenever two
\* create_new_user calls for distinct unregistered usernames have each read
\* the credential file before the other rewrote it, both report success and
\* the final file holds only one of the two new records; when the second
\* read the file after the first wrote it, the file holds both.
C24_OverlappingRegistrationsLoseOne ==
    BothCreated =>
        IF ReadBefore("s1", "s2") /\ ReadBefore("s2", "s1")
        THEN Cardinality(KeptOfTheTwo) = 1
        ELSE Cardinality(KeptOfTheTwo) = 2

\* both sessions read the readable file, both reported success, and the record
\* of one of them is not in the file
C24_Witness ==
    /\ BothCreated
    /\ \A session \in Sessions : registrations[session].readable
    /\ ReadBefore("s1", "s2")
    /\ ReadBefore("s2", "s1")
    /\ <<"carol">> \in DOMAIN credentials_file
    /\ <<"alice">> \in DOMAIN credentials_file
    /\ <<"bob">> \notin DOMAIN credentials_file

\* ------------------------------------------------------- the dispatch trace
\* the trace of the running or returned call
Trace == IF Returned THEN Val(returned).steps ELSE current_tool_steps

\* the trace has the Tool Call step of the run directly followed by the Tool
\* Output step with its error
ErrorStepFollowsCall(run) ==
    \E k \in 1..(Len(Trace) - 1) :
        /\ IsToolCall(Trace[k])
        /\ Trace[k].name = run.name
        /\ Trace[k].args = run.args
        /\ Trace[k + 1] = ToolOutputStep(ToolErrorMsg(run.name, run.value))

\* C25: when the tool function named in a model tool call raises, the handler
\* records after the Tool Call step a Tool Output step 'Error executing
\* <tool>: <message>', raises nothing itself, and still returns the answer
\* and the trace.
C25_ToolErrorIsRecordedAndTurnReturns ==
    \A i \in 1..Len(tool_runs) :
        tool_runs[i].raised =>
            /\ pc # "raised"
            /\ ErrorStepFollowsCall(tool_runs[i])
            /\ Returned => Val(returned).text # <<>>

\* the index of the first model call of the turn that succeeded
FirstOk == CHOOSE j \in 1..Len(model_calls) :
               model_calls[j].ok /\ \A k \in 1..(j - 1) : ~model_calls[k].ok

\* the follow-up model calls: those after the first call that succeeded
FollowUps == IF \E j \in 1..Len(model_calls) : model_calls[j].ok
             THEN (FirstOk + 1)..Len(model_calls) ELSE {}

\* the content of a response that carries the function call of the run
RequestedBy(content, run) ==
    /\ ~IsNone(content)
    /\ ~IsNone(Val(content).parts)
    /\ \E n \in 1..Len(Val(Val(content).parts)) :
          Val(Val(content).parts)[n].function_call =
              Some([name |-> run.name, args |-> run.args])

\* C26: for each tool call that executes successfully, the next model
\* invocation receives the previous context followed by the model content
\* that requested that call and then the function response for that call,
\* and the answer of the turn is extracted from the response to the last
\* such invocation.
C26_FollowUpContextCarriesCallAndResult ==
    /\ \A j \in FollowUps :
          LET sent == model_calls[j].contents
              before == model_calls[j - 1].contents
          IN /\ Len(sent) = Len(before) + 2
             /\ SubSeq(sent, 1, Len(before)) = before
             /\ \E i \in 1..Len(tool_runs) :
                   /\ ~tool_runs[i].raised
                   /\ sent[Len(sent)] =
                         Some(Content("user", <<FunctionResponsePart(tool_runs[i].name,
                                                                     tool_runs[i].value)>>))
                   /\ RequestedBy(sent[Len(sent) - 1], tool_runs[i])
    /\ (Returned /\ FollowUps # {} /\ model_calls[Len(model_calls)].ok) =>
          Val(returned).text = ExtractText(Val(model_calls[Len(model_calls)].response))

\* a Tool Output step whose output reads 'Error executing <tool>: ...'
IsErrorStep(step) ==
    /\ step.type = "Tool Output"
    /\ Len(step.output) >= 3
    /\ step.output[1] = "Error executing"

\* C27: a Tool Output step 'Error executing <tool>: ...' is in the trace only
\* if a run of that tool raised with that message, and no Tool Call step is
\* followed by more than one Tool Output step.
C27_ErrorStepOnlyWhenToolRaised ==
    /\ \A k \in 1..Len(Trace) :
          IsErrorStep(Trace[k]) =>
              \E i \in 1..Len(tool_runs) :
                  /\ tool_runs[i].raised
                  /\ Trace[k].output = ToolErrorMsg(tool_runs[i].name, tool_runs[i].value)
    /\ \A k \in 1..(Len(Trace) - 1) :
          ~(Trace[k].type = "Tool Output" /\ Trace[k + 1].type = "Tool Output")

\* ------------------------------------------- the frame of a registration
\* C28: a create_new_user call that reports success adds exactly one record,
\* that of the new username, and leaves the record of every other username of
\* the credential file as it was, whether or not the file could be read at
\* the time of the call.
C28_SuccessfulRegistrationKeepsOtherRecords ==
    [][(RegisterStep /\ Val(auth_call').saved = Some(TRUE)) =>
          LET c == Val(auth_call')
          IN /\ c.new_username \notin DOMAIN credentials_file
             /\ DOMAIN credentials_file' = DOMAIN credentials_file \cup {c.new_username}
             /\ \A u \in DOMAIN credentials_file :
                    credentials_file'[u] = credentials_file[u]
      ]_vars

\* ------------------------------------------------- the three delay tests
\* the orders of the customer that the report marks DELAYED
MarkedInReport(text, cid) ==
    {j \in OrdersOf(cid) :
        Contains(OrderSegment(text, store.orders.docs[j].order_id), "DELAYED:")}

\* the number of delayed orders check_customer_order_status counts
CountedDelayed(cid) ==
    IF check_customer_order_status(cid).status = "delayed"
    THEN check_customer_order_status(cid).count ELSE 0

\* C29: at every current time, an order of the customer is marked DELAYED in
\* the report of get_customer_orders exactly when check_for_critical_delays
\* lists it as delayed, and (for a customer whose orders carry the id in its
\* normal form) check_customer_order_status counts as many delayed orders as
\* the report marks; this includes an order whose est_delivery is today.
C29_DelayTestsAgree ==
    (/\ LastCall("get_customer_orders")
     /\ ~load_data.is_str
     /\ HasColumn(store.products.docs, "price")
     /\ KnownCustomer(Val(data_call).args[1])) =>
        LET cid == Val(data_call).args[1]
            text == Val(data_call).result.value
        IN /\ \A j \in OrdersOf(cid) :
                 (j \in MarkedInReport(text, cid))
                     <=> (store.orders.docs[j].order_id
                              \in ListedOrderIds(check_for_critical_delays))
           /\ (\A j \in OrdersOf(cid) :
                  store.orders.docs[j].customer_id = Upper(Strip(cid)))
                 => Cardinality(MarkedInReport(text, cid)) = CountedDelayed(cid)

\* ------------------------------------------------- the session invariant
\* the page is one of the two chat pages
OnChatPage == page \in {"customer_chat", "business_chat"}

\* the login that opened the session: the last call of the auth page was an
\* authenticate_user of the authenticated user through the portal of the
\* page's persona, it read the credential file, and the stored record has
\* that role and the password given
OpenedByLogin ==
    /\ ~IsNone(authenticated_user)
    /\ ~IsNone(auth_call)
    /\ Val(auth_call).func = "authenticate_user"
    /\ Val(auth_call).username = Val(authenticated_user)
    /\ Val(auth_call).expected_role = Persona
    /\ Val(auth_call).readable
    /\ Val(authenticated_user) \in DOMAIN credentials_file
    /\ credentials_file[Val(authenticated_user)].role = Persona
    /\ credentials_file[Val(authenticated_user)].password = Val(auth_call).password

\* the state of a session as the claim describes it
SessionInvariant ==
    /\ OnChatPage => OpenedByLogin
    /\ ~OnChatPage => IsNone(authenticated_user)
    /\ ~IsNone(customer_id) =>
           /\ page = "customer_chat"
           /\ customer_id = credentials_file[Val(authenticated_user)].customer_id
    /\ page \in {"selector", "auth", "business_chat"} => IsNone(customer_id)

\* a step of the chat: the histories, the audit log, the view or the call of
\* handle_chat_interaction change
ChatStep == <<customer_history, business_history, audit_log, biz_view, call_vars,
              turns>>' # <<customer_history, business_history, audit_log, biz_view,
                           call_vars, turns>>

\* C30: in every reachable session state a chat page implies an authenticated
\* user set by a successful authenticate_user whose stored role is the page's
\* persona; customer_id is set only while a customer is logged in (None on the
\* selector and auth pages and throughout a business session); and the chat
\* is rendered, and takes steps, only with an authenticated user.
C30_ChatPageOnlyAfterLogin ==
    /\ []SessionInvariant
    /\ [][ChatStep => (OnChatPage /\ ~IsNone(authenticated_user))]_vars

\* a customer session: alice was registered as a customer and logged in, the
\* customer page holds her trimmed, upper-cased customer id, and a turn of the
\* chat has been entered
C30_Witness ==
    /\ page = "customer_chat"
    /\ authenticated_user = Some(<<"alice">>)
    /\ customer_id = Some(<<"CUST_", "001">>)
    /\ credentials_file[<<"alice">>].role = "customer"
    /\ customer_history # <<>>
====
